---- MODULE Spec2Model ----
(***************************************************************************)
(* Signaling server with lock / waiting room (src/unnamed/part_000, the    *)
(* io.on("connection") handlers at lines 376-545).                         *)
(*                                                                         *)
(* Node runs every handler to completion on one thread, so each handler is *)
(* one action.  The JavaScript Maps are modelled as functions whose domain *)
(* is the key set; the iteration order of a Map is not modelled.  Room ids *)
(* and socket ids are taken from disjoint sets of strings.                 *)
(*                                                                         *)
(* sent is the list of emit calls of the handler that ran last, each with  *)
(* the set of sockets the call reaches:                                    *)
(*   socket.emit            -> the socket itself                           *)
(*   io.to(room).emit       -> every socket subscribed to room             *)
(*   socket.to(room).emit   -> every subscriber of room but the socket     *)
(*   io.to(id).emit         -> the connected socket id                     *)
(* ev is the event that handler processed.                                 *)
(*                                                                         *)
(* socket.data.waitingRoomId (written at lines 392 and 527) is read by no  *)
(* handler and is left out of the state.                                   *)
(*                                                                         *)
(* maxRoomSize is the value of the constant MAX_ROOM_SIZE in the running   *)
(* process, read from the environment once at start (lines 339-341).       *)
(*                                                                         *)
(* The one-to-one signaling server (src/signaling/src/index.ts) is         *)
(* modelled on the same sockets with its own room table, signaling, and    *)
(* joinedAck, the isInitiator value of the last joined sent to a socket.   *)
(*                                                                         *)
(* The room page (src/unnamed/part_001) is modelled per socket: inbox is   *)
(* the list of server messages not yet handled, in the order of the emits; *)
(* an async handler is split at its awaits and waits in tasks between two  *)
(* of its steps.  offers is the set of pairs <<sender, to>> of the offers  *)
(* emitted so far.                                                         *)
(***************************************************************************)
EXTENDS Naturals, Sequences, FiniteSets

\* ------------------------------------------------- bounds and constants
\* the number of sockets that ever connect
NumSessions == 3

\* process.env.MAX_ROOM_SIZE (default 10): the capacity the server is started with
MAX_ROOM_SIZE == 2

\* the length a name is cut to
NAME_LIMIT == 64

SessionIds == <<"s1", "s2", "s3", "s4", "s5">>

Sessions == {SessionIds[i] : i \in 1..NumSessions}

RoomSeq == <<"r1", "r2">>

RoomIds == {RoomSeq[i] : i \in 1..Len(RoomSeq)}

\* a join event that carries no name
NoName == <<>>

SignalPayloads(r, to) == {[roomId |-> r, type |-> "offer", sdp |-> "sdp", to |-> to]}

VARIABLES rooms, subs, sockets, nextId, sent, ev, maxRoomSize,
          signaling, joinedAck,
          inbox, memberState, selfRole, peerMap, localStream, tasks, phase, offers

\* the state of the room-page clients
clientVars == <<inbox, memberState, selfRole, peerMap, localStream, tasks, phase, offers>>

vars == <<rooms, subs, sockets, nextId, sent, ev, maxRoomSize, signaling, joinedAck, clientVars>>

\* ------------------------------------------------------------ Map helpers
Restrict(f, S) == [x \in S |-> f[x]]

MapSet(f, k, v) == [x \in DOMAIN f \cup {k} |-> IF x = k THEN v ELSE f[x]]

MapDelete(f, k) == Restrict(f, DOMAIN f \ {k})

\* object spread { ...a, ...b }
Spread(a, b) == [k \in DOMAIN a \cup DOMAIN b |-> IF k \in DOMAIN b THEN b[k] ELSE a[k]]

EmptyMap == [x \in {} |-> x]

Size(f) == Cardinality(DOMAIN f)

Take(str, n) == IF Len(str) <= n THEN str ELSE SubSeq(str, 1, n)

\* ------------------------------------------------------------- transport
Emit(type, to, body) == [type |-> type, to |-> to, body |-> body]

NoBody == [none |-> TRUE]

\* mutant: the sessions in the room's waiting map are reached too
IoToRoomAndWaiting(r) ==
    subs[r] \cup (IF r \in DOMAIN rooms THEN DOMAIN rooms[r].waiting ELSE {})

\* io.to(roomId): the sockets subscribed to the room
IoToRoom(r) == subs[r]

\* mutant: the emitting socket is not left out
SocketToRoomWithSelf(s, r) == subs[r]

\* socket.to(roomId) / socket.broadcast.to(roomId): all subscribers but socket
SocketToRoom(s, r) == subs[r] \ {s}

\* io.to(id) for a socket id: that socket, when it is connected
IoToSocket(id) == {id} \cap sockets

\* ------------------------------------------------------------ room values
NewRoom == [members |-> EmptyMap, locked |-> FALSE, waiting |-> EmptyMap]

\* rooms.get(roomId) || { members: new Map(), locked: false, waiting: new Map() }
GetOrNew(r) == IF r \in DOMAIN rooms THEN rooms[r] ELSE NewRoom

\* (name && String(name).slice(0, 64)) || `Guest-${socket.id.slice(0, 6)}`
SafeName(s, name) == IF name # NoName THEN Take(name, NAME_LIMIT) ELSE <<"Guest-", s>>

\* [...room.waiting.entries()].map(([id, w]) => ({ id, name: w.name }))
WaitingList(room) == {[id |-> w, name |-> room.waiting[w].name] : w \in DOMAIN room.waiting}

\* mutant: the filter on the socket's own id is dropped
PeersWithSelf(room, self) == {Spread([id |-> m], room.members[m]) : m \in DOMAIN room.members}

\* [...room.members.entries()].filter(([id]) => id !== self).map(([id, s]) => ({ id, ...s }))
Peers(room, self) == {Spread([id |-> m], room.members[m]) : m \in DOMAIN room.members \ {self}}

\* the state of a server started with MAX_ROOM_SIZE set to `size`
InitWith(size) ==
    /\ rooms = EmptyMap
    /\ subs = [r \in RoomIds |-> {}]
    /\ sockets = {}
    /\ nextId = 1
    /\ sent = <<>>
    /\ ev = [type |-> "init"]
    /\ maxRoomSize = size
    /\ signaling = [rooms |-> EmptyMap, subs |-> [r \in RoomIds |-> {}]]
    /\ joinedAck = [r \in RoomIds |-> EmptyMap]
    /\ inbox = [s \in Sessions |-> <<>>]
    /\ memberState = [s \in Sessions |-> EmptyMap]
    /\ selfRole = [s \in Sessions |-> "none"]
    /\ peerMap = [s \in Sessions |-> EmptyMap]
    /\ localStream = [s \in Sessions |-> FALSE]
    /\ tasks = [s \in Sessions |-> <<>>]
    /\ phase = [s \in Sessions |-> "new"]
    /\ offers = {}

Init == InitWith(MAX_ROOM_SIZE)

\* io.on("connection"): a new socket with a fresh id
Connect ==
    /\ nextId <= NumSessions
    /\ sockets' = sockets \cup {SessionIds[nextId]}
    /\ nextId' = nextId + 1
    /\ sent' = <<>>
    /\ ev' = [type |-> "connection", from |-> SessionIds[nextId]]
    /\ UNCHANGED <<rooms, subs, maxRoomSize, signaling, joinedAck>>

\* ------------------------------------------------------------------ join
\* mutant: the first member is not made host
JoinRoleAlwaysGuest(room) == "guest"

\* room.members.size === 0 ? "host" : "guest"
JoinRole(room) == IF Size(room.members) = 0 THEN "host" ELSE "guest"

\* { name: safeName, muted: false, videoOn: true, handRaised: false, role }
NewState(name, role) ==
    [name |-> name, muted |-> FALSE, videoOn |-> TRUE, handRaised |-> FALSE, role |-> role]

\* mutant: the capacity check off by one (> for >=)
RoomFullOffByOne(room) == Size(room.members) > maxRoomSize

\* mutant: the lock is looked at first, a locked room is never reported full
RoomFullUnlessLocked(room) == ~room.locked /\ Size(room.members) >= maxRoomSize

\* room.members.size >= MAX_ROOM_SIZE
RoomFull(room) == Size(room.members) >= maxRoomSize

\* room.locked && room.members.size > 0
MustWait(room) == room.locked /\ Size(room.members) > 0

\* mutant: the rejected joiner is subscribed to the room before the return
JoinFullSubscribes(s, r) ==
    /\ sent' = <<Emit("error", {s}, [message |-> "room-full"])>>
    /\ subs' = [subs EXCEPT ![r] = @ \cup {s}]
    /\ UNCHANGED rooms

\* socket.emit("error", "room-full"); return
JoinFull(s, r) ==
    /\ sent' = <<Emit("error", {s}, [message |-> "room-full"])>>
    /\ UNCHANGED <<rooms, subs>>

JoinWaiting(s, r, name) ==
    LET room == GetOrNew(r)
        after == [room EXCEPT !.waiting = MapSet(@, s, [name |-> name])]
    IN  /\ rooms' = MapSet(rooms, r, after)
        /\ sent' = <<Emit("waiting", {s}, NoBody),
                     Emit("waiting-list", IoToRoom(r), [list |-> WaitingList(after)])>>
        /\ UNCHANGED subs

JoinDirect(s, r, name) ==
    LET room == GetOrNew(r)
        role == JoinRole(room)
        state == NewState(name, role)
        after == [room EXCEPT !.members = MapSet(@, s, state)]
    IN  /\ rooms' = MapSet(rooms, r, after)
        /\ subs' = [subs EXCEPT ![r] = @ \cup {s}]
        /\ sent' = <<Emit("joined", {s}, [selfId |-> s, selfRole |-> role, peers |-> Peers(after, s)]),
                     Emit("peer-joined", (subs[r] \cup {s}) \ {s}, Spread([id |-> s], state))>>

Join(s, r, name) ==
    /\ s \in sockets
    /\ IF RoomFull(GetOrNew(r)) THEN JoinFull(s, r)
       ELSE IF MustWait(GetOrNew(r)) THEN JoinWaiting(s, r, SafeName(s, name))
       ELSE JoinDirect(s, r, SafeName(s, name))
    /\ ev' = [type |-> "join", from |-> s, roomId |-> r, name |-> name]
    /\ UNCHANGED <<sockets, nextId, maxRoomSize, signaling, joinedAck>>

\* ---------------------------------------------------------------- signal
\* mutant: a from field of the client's payload wins over the sender's socket id
SignalOutPayloadWins(s, payload) == Spread([from |-> s], payload)

\* io.to(to).emit("signal", { ...payload, from: socket.id })
SignalOut(s, payload) == Spread(payload, [from |-> s])

\* mutant: the target is not looked up in members
SignalRoutableAnyTarget(r, to) == r \in DOMAIN rooms

\* rooms.get(roomId) exists and room.members.has(to)
SignalRoutable(r, to) == r \in DOMAIN rooms /\ to \in DOMAIN rooms[r].members

Signal(s, payload) ==
    /\ s \in sockets
    /\ sent' = IF SignalRoutable(payload.roomId, payload.to)
               THEN <<Emit("signal", IoToSocket(payload.to), SignalOut(s, payload))>>
               ELSE <<>>
    /\ ev' = [type |-> "signal", from |-> s, roomId |-> payload.roomId, payload |-> payload]
    /\ UNCHANGED <<rooms, subs, sockets, nextId, maxRoomSize, signaling, joinedAck>>

\* ------------------------------------------------------ leave / disconnect
\* mutant: when a member is deleted every remaining member is given the host role
RemoveMemberPromotes(rs, r, s) ==
    IF r \notin DOMAIN rs THEN rs
    ELSE LET m == MapDelete(rs[r].members, s)
         IN  IF Size(m) = 0 THEN MapDelete(rs, r)
             ELSE MapSet(rs, r, [rs[r] EXCEPT
                                    !.members = [x \in DOMAIN m |-> Spread(m[x], [role |-> "host"])]])

\* mutant: the member is deleted and the emptied room stays in the table
RemoveMemberKeepRoom(rs, r, s) ==
    IF r \notin DOMAIN rs THEN rs
    ELSE MapSet(rs, r, [rs[r] EXCEPT !.members = MapDelete(@, s)])

\* room.members.delete(socket.id); if (room.members.size === 0) rooms.delete(roomId)
RemoveMember(rs, r, s) ==
    IF r \notin DOMAIN rs THEN rs
    ELSE LET m == MapDelete(rs[r].members, s)
         IN  IF Size(m) = 0 THEN MapDelete(rs, r)
             ELSE MapSet(rs, r, [rs[r] EXCEPT !.members = m])

\* mutant: leave keeps the socket subscribed to the room
LeaveKeepsSubscription(s, r) == subs[r]

\* socket.leave(roomId)
LeaveSubscribers(s, r) == subs[r] \ {s}

Leave(s, r) ==
    /\ s \in sockets
    /\ subs' = [subs EXCEPT ![r] = LeaveSubscribers(s, r)]
    /\ sent' = <<Emit("peer-left", subs[r] \ {s}, [id |-> s])>>
    /\ rooms' = RemoveMember(rooms, r, s)
    /\ ev' = [type |-> "leave", from |-> s, roomId |-> r]
    /\ UNCHANGED <<sockets, nextId, maxRoomSize, signaling, joinedAck>>

\* mutant: only the first room of socket.rooms is cleaned up
DisconnectFirstRoom(rs, i, s) ==
    IF s \in subs[RoomSeq[1]] THEN RemoveMember(rs, RoomSeq[1], s) ELSE rs

\* for (const roomId of socket.rooms): members.delete / rooms.delete, room by room
RECURSIVE DisconnectRooms(_, _, _)
DisconnectRooms(rs, i, s) ==
    IF i > Len(RoomSeq) THEN rs
    ELSE DisconnectRooms(IF s \in subs[RoomSeq[i]] THEN RemoveMember(rs, RoomSeq[i], s) ELSE rs,
                         i + 1, s)

\* socket.to(roomId).emit("peer-left", { id: socket.id }) for every room of socket.rooms
RECURSIVE DisconnectPeerLeft(_, _)
DisconnectPeerLeft(i, s) ==
    IF i > Len(RoomSeq) THEN <<>>
    ELSE (IF s \in subs[RoomSeq[i]]
          THEN <<Emit("peer-left", SocketToRoom(s, RoomSeq[i]), [id |-> s])>>
          ELSE <<>>) \o DisconnectPeerLeft(i + 1, s)

\* mutant: a disconnect empties every waiting map
DisconnectWaitingAll(rs, s) ==
    [r \in DOMAIN rs |-> [rs[r] EXCEPT !.waiting = EmptyMap]]

\* for (const [rid, room] of rooms.entries()) room.waiting.delete(socket.id)
DisconnectWaiting(rs, s) ==
    [r \in DOMAIN rs |-> [rs[r] EXCEPT !.waiting = MapDelete(@, s)]]

\* io.to(rid).emit("waiting-list", ...) for every room that held the socket in waiting;
\* the transport of the disconnecting socket is closed, so it is reached by nothing
RECURSIVE DisconnectWaitingList(_, _, _)
DisconnectWaitingList(rs, i, s) ==
    IF i > Len(RoomSeq) THEN <<>>
    ELSE (IF RoomSeq[i] \in DOMAIN rs /\ s \in DOMAIN rs[RoomSeq[i]].waiting
          THEN <<Emit("waiting-list", IoToRoom(RoomSeq[i]) \ {s},
                      [list |-> WaitingList([rs[RoomSeq[i]] EXCEPT !.waiting = MapDelete(@, s)])])>>
          ELSE <<>>) \o DisconnectWaitingList(rs, i + 1, s)

\* the "disconnecting" handler, then socket.io drops the socket from its rooms
Disconnect(s) ==
    /\ s \in sockets
    /\ LET rs == DisconnectRooms(rooms, 1, s)
       IN  /\ rooms' = DisconnectWaiting(rs, s)
           /\ sent' = DisconnectPeerLeft(1, s) \o DisconnectWaitingList(rs, 1, s)
    /\ subs' = [r \in RoomIds |-> subs[r] \ {s}]
    /\ sockets' = sockets \ {s}
    /\ ev' = [type |-> "disconnecting", from |-> s]
    /\ UNCHANGED <<nextId, maxRoomSize, signaling, joinedAck>>

\* ----------------------------------------------------------- state-update
\* rooms.get(roomId) exists and room.members.get(socket.id) is set
IsMember(s, r) == r \in DOMAIN rooms /\ s \in DOMAIN rooms[r].members

\* mutant: the spread the other way round, the stored fields win
MergeStateCurrentWins(current, partial) == Spread(partial, current)

\* const updated = { ...current, ...partial }
MergeState(current, partial) == Spread(current, partial)

StateUpdate(s, r, partial) ==
    /\ s \in sockets
    /\ IF IsMember(s, r)
       THEN /\ rooms' = [rooms EXCEPT ![r].members[s] = MergeState(@, partial)]
            /\ sent' = <<Emit("state-update", SocketToRoom(s, r), [id |-> s, partial |-> partial])>>
       ELSE /\ rooms' = rooms
            /\ sent' = <<>>
    /\ ev' = [type |-> "state-update", from |-> s, roomId |-> r, partial |-> partial]
    /\ UNCHANGED <<subs, sockets, nextId, maxRoomSize, signaling, joinedAck>>

\* ------------------------------------------------- lock-room / admit / deny
\* mutant: the role check is dropped, any member passes
IsHostAnyMember(s, r) == IsMember(s, r)

\* const current = room.members.get(socket.id); current && current.role === "host"
IsHost(s, r) == IsMember(s, r) /\ rooms[r].members[s].role = "host"

LockRoom(s, r, locked) ==
    /\ s \in sockets
    /\ IF IsHost(s, r)
       THEN /\ rooms' = [rooms EXCEPT ![r].locked = locked]
            /\ sent' = <<Emit("lock-state", IoToRoom(r), [locked |-> locked])>>
       ELSE /\ rooms' = rooms
            /\ sent' = <<>>
    /\ ev' = [type |-> "lock-room", from |-> s, roomId |-> r, locked |-> locked]
    /\ UNCHANGED <<subs, sockets, nextId, maxRoomSize, signaling, joinedAck>>

\* room.waiting.get(id) is set and io.sockets.sockets.get(id) is a connected socket
Admissible(r, id) == id \in DOMAIN rooms[r].waiting /\ id \in sockets

\* mutant: the admitted session is stored as a host
AdmitRoleHost == "host"

\* the role the admit handler writes into the admitted member's state
AdmitRole == "guest"

\* mutant: peer-joined goes to the whole room, the admitted socket included
AdmitBroadcastAll(r, id) == subs[r] \cup {id}

\* target.broadcast.to(roomId), after target.join(roomId): the room but the target
AdmitBroadcast(r, id) == (subs[r] \cup {id}) \ {id}

AdmitEffect(s, r, id) ==
    LET room == rooms[r]
        state == NewState(room.waiting[id].name, AdmitRole)
        after == [room EXCEPT !.waiting = MapDelete(@, id), !.members = MapSet(@, id, state)]
        inRoom == subs[r] \cup {id}
    IN  /\ rooms' = MapSet(rooms, r, after)
        /\ subs' = [subs EXCEPT ![r] = inRoom]
        /\ sent' = <<Emit("joined", {id}, [selfId |-> id, selfRole |-> "guest", peers |-> Peers(after, id)]),
                     Emit("peer-joined", AdmitBroadcast(r, id), Spread([id |-> id], state)),
                     Emit("waiting-list", inRoom, [list |-> WaitingList(after)])>>

Admit(s, r, id) ==
    /\ s \in sockets
    /\ IF IsHost(s, r) /\ Admissible(r, id)
       THEN AdmitEffect(s, r, id)
       ELSE /\ sent' = <<>>
            /\ UNCHANGED <<rooms, subs>>
    /\ ev' = [type |-> "admit", from |-> s, roomId |-> r, id |-> id]
    /\ UNCHANGED <<sockets, nextId, maxRoomSize, signaling, joinedAck>>

DenyEffect(s, r, id) ==
    LET after == [rooms[r] EXCEPT !.waiting = MapDelete(@, id)]
    IN  /\ rooms' = MapSet(rooms, r, after)
        /\ sent' = <<Emit("waiting-list", IoToRoom(r), [list |-> WaitingList(after)]),
                     Emit("denied", IoToSocket(id), NoBody)>>

Deny(s, r, id) ==
    /\ s \in sockets
    /\ IF IsHost(s, r) /\ id \in DOMAIN rooms[r].waiting
       THEN DenyEffect(s, r, id)
       ELSE /\ sent' = <<>>
            /\ rooms' = rooms
    /\ ev' = [type |-> "deny", from |-> s, roomId |-> r, id |-> id]
    /\ UNCHANGED <<subs, sockets, nextId, maxRoomSize, signaling, joinedAck>>

\* ------------------------------------------------ rename / reaction / chat
\* mutant: the requested name is dropped, the stored one is kept
RenameSafeNameKeepsCurrent(current, name) == current.name

\* (name && String(name).slice(0, 64)) || current.name
RenameSafeName(current, name) == IF name # NoName THEN Take(name, NAME_LIMIT) ELSE current.name

Rename(s, r, name) ==
    /\ s \in sockets
    /\ IF IsMember(s, r)
       THEN LET safeName == RenameSafeName(rooms[r].members[s], name)
            IN  /\ rooms' = [rooms EXCEPT ![r].members[s] = Spread(@, [name |-> safeName])]
                /\ sent' = <<Emit("state-update", IoToRoom(r),
                                  [id |-> s, partial |-> [name |-> safeName]])>>
       ELSE /\ rooms' = rooms
            /\ sent' = <<>>
    /\ ev' = [type |-> "rename", from |-> s, roomId |-> r, name |-> name]
    /\ UNCHANGED <<subs, sockets, nextId, maxRoomSize, signaling, joinedAck>>

\* io.to(roomId): the sockets a reaction is emitted to
ReactionTo(s, r) == IoToRoom(r)

\* an emoji is [str |-> whether it is a string, val |-> the string]
\* !room || typeof emoji !== "string" || emoji.length === 0
ReactionDropped(r, emoji) == r \notin DOMAIN rooms \/ ~emoji.str \/ emoji.val = ""

Reaction(s, r, emoji, to) ==
    /\ s \in sockets
    /\ sent' = IF ReactionDropped(r, emoji) THEN <<>>
               ELSE <<Emit("reaction", ReactionTo(s, r), [from |-> s, emoji |-> emoji.val])>>
    /\ ev' = [type |-> "reaction", from |-> s, roomId |-> r, emoji |-> emoji, to |-> to]
    /\ UNCHANGED <<rooms, subs, sockets, nextId, maxRoomSize, signaling, joinedAck>>

\* String.prototype.trim on a list of characters
RECURSIVE TrimLeft(_)
TrimLeft(str) == IF str # <<>> /\ Head(str) = " " THEN TrimLeft(Tail(str)) ELSE str

RECURSIVE TrimRight(_)
TrimRight(str) ==
    IF str # <<>> /\ str[Len(str)] = " " THEN TrimRight(SubSeq(str, 1, Len(str) - 1)) ELSE str

Trim(str) == TrimRight(TrimLeft(str))

\* the length a chat text is cut to
CHAT_LIMIT == 2000

\* a chat event without a `to`
NoTo == "none"

\* a text is [str |-> whether it is a string, val |-> its characters]
\* !room || typeof text !== "string", then !trimmed
ChatDropped(r, text) == r \notin DOMAIN rooms \/ ~text.str \/ Trim(text.val) = <<>>

\* mutant: `to` is ignored, every chat goes to the room
ChatToRoomOnly(s, r, to) == SocketToRoom(s, r)

\* to && room.members.has(to) ? io.to(to) : socket.to(roomId)
ChatTo(s, r, to) ==
    IF to # NoTo /\ to \in DOMAIN rooms[r].members THEN IoToSocket(to) ELSE SocketToRoom(s, r)

\* { from: socket.id, text: trimmed.slice(0, 2000), ts: Date.now() }
ChatPayload(s, text) == [from |-> s, text |-> Take(Trim(text.val), CHAT_LIMIT), ts |-> "now"]

Chat(s, r, text, to) ==
    /\ s \in sockets
    /\ sent' = IF ChatDropped(r, text) THEN <<>>
               ELSE <<Emit("chat", ChatTo(s, r, to), ChatPayload(s, text))>>
    /\ ev' = [type |-> "chat", from |-> s, roomId |-> r, text |-> text, to |-> to]
    /\ UNCHANGED <<rooms, subs, sockets, nextId, maxRoomSize, signaling, joinedAck>>

\* ------------------------------------------------------------ next state
\* an event of a socket that no room-page client is attached to
NoClient == UNCHANGED clientVars

\* one event from a connected client: rooms R, join names N, state partials P
Step(R, N, P) ==
    \/ Connect /\ NoClient
    \/ \E s \in Sessions, r \in R, name \in N : Join(s, r, name) /\ NoClient
    \/ \E s \in Sessions, r \in R, to \in Sessions : \E p \in SignalPayloads(r, to) : Signal(s, p) /\ NoClient
    \/ \E s \in Sessions, r \in R : Leave(s, r) /\ NoClient
    \/ \E s \in Sessions : Disconnect(s) /\ NoClient
    \/ \E s \in Sessions, r \in R, partial \in P : StateUpdate(s, r, partial) /\ NoClient
    \/ \E s \in Sessions, r \in R, locked \in BOOLEAN : LockRoom(s, r, locked) /\ NoClient
    \/ \E s \in Sessions, r \in R, id \in Sessions : Admit(s, r, id) /\ NoClient
    \/ \E s \in Sessions, r \in R, id \in Sessions : Deny(s, r, id) /\ NoClient

\* Spec: one room, joins that carry no name, state-update partials that carry a role
\* (the one field of MemberState that lock-room, admit and deny read)
Next == Step({"r1"}, {NoName}, {[role |-> "host"], [role |-> "guest"]})

Spec == Init /\ [][Next]_vars

\* SpecJoins: connections and join events only, against either room
NextJoins ==
    \/ Connect /\ NoClient
    \/ \E s \in Sessions, r \in RoomIds, name \in {NoName, <<"a">>} : Join(s, r, name) /\ NoClient

SpecJoins == Init /\ [][NextJoins]_vars

\* SpecRouter: one room; the events that move a session in and out of members and
\* waiting, and the three routed events signal, chat and reaction
Emojis == {[str |-> TRUE, val |-> "x"], [str |-> TRUE, val |-> ""]}

Texts == {[str |-> TRUE, val |-> <<" ", "h", "i", " ">>], [str |-> TRUE, val |-> <<" ">>]}

NextRouter ==
    \/ Connect /\ NoClient
    \/ \E s \in Sessions : Join(s, "r1", NoName) /\ NoClient
    \/ \E s \in Sessions : Leave(s, "r1") /\ NoClient
    \/ \E s \in Sessions, locked \in BOOLEAN : LockRoom(s, "r1", locked) /\ NoClient
    \/ \E s \in Sessions, to \in Sessions : \E p \in SignalPayloads("r1", to) : Signal(s, p) /\ NoClient
    \/ \E s \in Sessions, e \in Emojis : Reaction(s, "r1", e, NoTo) /\ NoClient
    \/ \E s \in Sessions, x \in Texts, to \in Sessions \cup {NoTo} : Chat(s, "r1", x, to) /\ NoClient

SpecRouter == Init /\ [][NextRouter]_vars

\* SpecRooms: both rooms; join and lock-room, which put a session in members or in
\* waiting, and leave and disconnect
NextRooms ==
    \/ Connect /\ NoClient
    \/ \E s \in Sessions, r \in RoomIds : Join(s, r, NoName) /\ NoClient
    \/ \E s \in Sessions, r \in RoomIds : Leave(s, r) /\ NoClient
    \/ \E s \in Sessions : Disconnect(s) /\ NoClient
    \/ \E s \in Sessions, r \in RoomIds : LockRoom(s, r, TRUE) /\ NoClient

SpecRooms == Init /\ [][NextRooms]_vars

\* SpecState: one room; join and admit, which send the peers snapshot, and the two
\* events that write a member's stored state
Partials == {[muted |-> TRUE, handRaised |-> TRUE], [muted |-> FALSE, handRaised |-> FALSE]}

NextState ==
    \/ Connect /\ NoClient
    \/ \E s \in Sessions : Join(s, "r1", NoName) /\ NoClient
    \/ \E s \in Sessions : LockRoom(s, "r1", TRUE) /\ NoClient
    \/ \E s \in Sessions, id \in Sessions : Admit(s, "r1", id) /\ NoClient
    \/ \E s \in Sessions, partial \in Partials : StateUpdate(s, "r1", partial) /\ NoClient
    \/ \E s \in Sessions, name \in {NoName, <<"a">>} : Rename(s, "r1", name) /\ NoClient

SpecState == Init /\ [][NextState]_vars

\* SpecScenario: a server with room for three members; one room; join, lock-room,
\* admit and disconnect
ScenarioRoomSize == 3

InitScenario == InitWith(ScenarioRoomSize)

NextScenario ==
    \/ Connect /\ NoClient
    \/ \E s \in Sessions : Join(s, "r1", NoName) /\ NoClient
    \/ \E s \in Sessions, locked \in BOOLEAN : LockRoom(s, "r1", locked) /\ NoClient
    \/ \E s \in Sessions, id \in Sessions : Admit(s, "r1", id) /\ NoClient
    \/ \E s \in Sessions : Disconnect(s) /\ NoClient

SpecScenario == InitScenario /\ [][NextScenario]_vars

\* SpecSubs: one room; every handler that subscribes or unsubscribes a socket (join,
\* leave, disconnect, admit) and every handler that broadcasts to the room
NextSubs ==
    \/ Connect /\ NoClient
    \/ \E s \in Sessions : Join(s, "r1", NoName) /\ NoClient
    \/ \E s \in Sessions : Leave(s, "r1") /\ NoClient
    \/ \E s \in Sessions : Disconnect(s) /\ NoClient
    \/ \E s \in Sessions : LockRoom(s, "r1", TRUE) /\ NoClient
    \/ \E s \in Sessions, id \in Sessions : Admit(s, "r1", id) /\ NoClient
    \/ \E s \in Sessions : StateUpdate(s, "r1", [muted |-> TRUE]) /\ NoClient
    \/ \E s \in Sessions : Reaction(s, "r1", [str |-> TRUE, val |-> "x"], NoTo) /\ NoClient
    \/ \E s \in Sessions : Chat(s, "r1", [str |-> TRUE, val |-> <<"h", "i">>], NoTo) /\ NoClient

SpecSubs == Init /\ [][NextSubs]_vars

\* SpecForge: one room; the three events whose delivered message names its sender,
\* with signal payloads that carry a from field of the client's choosing
ForgedPayloads(r, to, from) ==
    {[roomId |-> r, type |-> "offer", sdp |-> "sdp", to |-> to, from |-> from]}

NextForge ==
    \/ Connect /\ NoClient
    \/ \E s \in Sessions : Join(s, "r1", NoName) /\ NoClient
    \/ \E s \in Sessions : Leave(s, "r1") /\ NoClient
    \/ \E s \in Sessions, to \in Sessions, from \in Sessions :
           \E p \in ForgedPayloads("r1", to, from) : Signal(s, p) /\ NoClient
    \/ \E s \in Sessions : Reaction(s, "r1", [str |-> TRUE, val |-> "x"], NoTo) /\ NoClient
    \/ \E s \in Sessions, to \in Sessions \cup {NoTo} :
           Chat(s, "r1", [str |-> TRUE, val |-> <<"h", "i">>], to) /\ NoClient

SpecForge == Init /\ [][NextForge]_vars

\* ------------------------------------------- one-to-one signaling server
\* src/signaling/src/index.ts.  signaling.rooms is its room table (a room is its set
\* of member socket ids), signaling.subs the sockets subscribed to each room id.
\* joinedAck[r][s] is the isInitiator value of the last joined message that the
\* server sent to socket s for room r.  Its connections are the sockets of Connect.

\* rooms.get(roomId) || { members: new Set<string>() }
SignalingRoom(r) == IF r \in DOMAIN signaling.rooms THEN signaling.rooms[r] ELSE [members |-> {}]

\* room.members.size >= 2
SignalingFull(room) == Cardinality(room.members) >= 2

\* const isInitiator = room.members.size === 1, read after the add
IsInitiator(room) == Cardinality(room.members) = 1

\* mutant: ready is emitted whenever the room had one member before the join
ReadyWhenNotAlone(sizeBefore, sizeAfter) == sizeBefore = 1

\* sizeBefore === 1 && room.members.size === 2
Ready(sizeBefore, sizeAfter) == sizeBefore = 1 /\ sizeAfter = 2

SignalingJoin(s, r) ==
    /\ s \in sockets
    /\ LET room == SignalingRoom(r)
           after == [members |-> room.members \cup {s}]
           inRoom == signaling.subs[r] \cup {s}
       IN  IF SignalingFull(room)
           THEN /\ sent' = <<Emit("error", {s}, [message |-> "room-full"])>>
                /\ UNCHANGED <<signaling, joinedAck>>
           ELSE /\ signaling' = [rooms |-> MapSet(signaling.rooms, r, after),
                                 subs |-> [signaling.subs EXCEPT ![r] = inRoom]]
                /\ joinedAck' = [joinedAck EXCEPT ![r] = MapSet(@, s, IsInitiator(after))]
                /\ sent' = <<Emit("joined", {s}, [isInitiator |-> IsInitiator(after)])>>
                           \o (IF Ready(Cardinality(room.members), Cardinality(after.members))
                               THEN <<Emit("ready", inRoom, NoBody)>>
                               ELSE <<>>)
    /\ ev' = [type |-> "join", from |-> s, roomId |-> r]
    /\ UNCHANGED <<rooms, subs, sockets, nextId, maxRoomSize>>

\* socket.to(roomId).emit("signal", payload)
SignalingSignal(s, payload) ==
    /\ s \in sockets
    /\ sent' = <<Emit("signal", signaling.subs[payload.roomId] \ {s}, payload)>>
    /\ ev' = [type |-> "signal", from |-> s, roomId |-> payload.roomId, payload |-> payload]
    /\ UNCHANGED <<rooms, subs, sockets, nextId, maxRoomSize, signaling, joinedAck>>

\* room.members.delete(socket.id); if (room.members.size === 0) rooms.delete(roomId)
SignalingRemove(rs, r, s) ==
    IF r \notin DOMAIN rs THEN rs
    ELSE IF rs[r].members \ {s} = {} THEN MapDelete(rs, r)
    ELSE MapSet(rs, r, [members |-> rs[r].members \ {s}])

SignalingLeave(s, r) ==
    /\ s \in sockets
    /\ signaling' = [rooms |-> SignalingRemove(signaling.rooms, r, s),
                     subs |-> [signaling.subs EXCEPT ![r] = @ \ {s}]]
    /\ sent' = <<Emit("signal", signaling.subs[r] \ {s}, [type |-> "peer-left"])>>
    /\ ev' = [type |-> "leave", from |-> s, roomId |-> r]
    /\ UNCHANGED <<rooms, subs, sockets, nextId, maxRoomSize, joinedAck>>

\* for (const roomId of socket.rooms): members.delete / rooms.delete, room by room
RECURSIVE SignalingDisconnectRooms(_, _, _)
SignalingDisconnectRooms(rs, i, s) ==
    IF i > Len(RoomSeq) THEN rs
    ELSE SignalingDisconnectRooms(IF s \in signaling.subs[RoomSeq[i]]
                                  THEN SignalingRemove(rs, RoomSeq[i], s) ELSE rs,
                                  i + 1, s)

\* socket.to(roomId).emit("signal", { type: "peer-left" }) for every room of socket.rooms
RECURSIVE SignalingDisconnectPeerLeft(_, _)
SignalingDisconnectPeerLeft(i, s) ==
    IF i > Len(RoomSeq) THEN <<>>
    ELSE (IF s \in signaling.subs[RoomSeq[i]]
          THEN <<Emit("signal", signaling.subs[RoomSeq[i]] \ {s}, [type |-> "peer-left"])>>
          ELSE <<>>) \o SignalingDisconnectPeerLeft(i + 1, s)

\* the "disconnecting" handler, then socket.io drops the socket from its rooms
SignalingDisconnect(s) ==
    /\ s \in sockets
    /\ signaling' = [rooms |-> SignalingDisconnectRooms(signaling.rooms, 1, s),
                     subs |-> [r \in RoomIds |-> signaling.subs[r] \ {s}]]
    /\ sent' = SignalingDisconnectPeerLeft(1, s)
    /\ sockets' = sockets \ {s}
    /\ ev' = [type |-> "disconnecting", from |-> s]
    /\ UNCHANGED <<rooms, subs, nextId, maxRoomSize, joinedAck>>

\* SpecSignaling: the one-to-one server; one room; every handler
NextSignaling ==
    \/ Connect /\ NoClient
    \/ \E s \in Sessions : SignalingJoin(s, "r1") /\ NoClient
    \/ \E s \in Sessions :
           SignalingSignal(s, [roomId |-> "r1", type |-> "offer", sdp |-> "sdp"]) /\ NoClient
    \/ \E s \in Sessions : SignalingLeave(s, "r1") /\ NoClient
    \/ \E s \in Sessions : SignalingDisconnect(s) /\ NoClient

SpecSignaling == Init /\ [][NextSignaling]_vars

\* ------------------------------------------------------ room-page client
\* src/unnamed/part_001 (src/web/app/room/[roomId]/page.tsx has the same handlers).
\* Every socket of these actions belongs to one mounted room page.  For socket s:
\*   phase[s]        "new" until the connect handler emitted join, "open" after it,
\*                   "left" after hangup(), "closed" after the page unmounted
\*   inbox[s]        the messages the server sent to s that its handlers have not run
\*                   for yet, in the order of the emits
\*   memberState[s]  memberStateRef, peerMap[s] peerMapRef, localStream[s] whether
\*                   localStreamRef.current holds a stream, selfRole[s] the selfRole
\*                   state ("none" for null)
\*   tasks[s]        the async handlers of s that are suspended at an await
\*   offers          the pairs <<from, to>> of the offers that clients have emitted
\* A handler runs without interruption up to its next await.  A client's emit and the
\* server's handler for it are one step: socket.io delivers the events of one socket
\* in order and the server runs each handler to completion.  An operation on a closed
\* RTCPeerConnection throws, so closePeer ends what the suspended handlers still do
\* with that connection.  SDP and candidates are taken as well formed: addIceCandidate
\* does not reject.

\* the room id of the page's URL
ClientRoom == "r1"

\* the messages whose handlers write memberStateRef or peerMapRef
Handled == {"joined", "peer-joined", "peer-left", "signal"}

\* the messages of the emit list q that reach socket s, in the order of the emits
ToClient(q, s) ==
    LET Mine(m) == s \in m.to /\ m.type \in Handled
        mine == SelectSeq(q, Mine)
    IN  [i \in 1..Len(mine) |-> [type |-> mine[i].type, body |-> mine[i].body]]

\* the number of messages that can wait for one client's handlers
MaxInbox == 2

Deliver(q) == [s \in Sessions |-> inbox[s] \o ToClient(q, s)]

\* the emits of the server's handler are added to the inboxes
Received == inbox' = Deliver(sent') /\ \A x \in Sessions : Len(inbox'[x]) <= MaxInbox

RemoveAt(seq, i) == SubSeq(seq, 1, i - 1) \o SubSeq(seq, i + 1, Len(seq))

\* the handlers are attached from connectSocket() until the unmount
Listening(s) == phase[s] \in {"open", "left"}

\* a step of the client that sends nothing to the server
ServerIdle == UNCHANGED <<rooms, subs, sockets, nextId, sent, ev, maxRoomSize, signaling, joinedAck>>

\* the number of candidates the ICE agent of one connection reports
MaxCandidates == 2

\* new RTCPeerConnection: tracks is whether the local tracks were added to it,
\* remoteDescription whether pc.remoteDescription is set, candidates the candidates
\* passed to pc.addIceCandidate, iceSent the candidates its onicecandidate has sent
NewPeer(stream, isCaller) ==
    [isCaller |-> isCaller, tracks |-> stream, remoteDescription |-> FALSE,
     pendingCandidates |-> <<>>, candidates |-> <<>>, iceSent |-> 0]

EnsurePeerConnection(pm, stream, peerId, isCaller) ==
    IF peerId \in DOMAIN pm THEN pm ELSE MapSet(pm, peerId, NewPeer(stream, isCaller))

NoPeer == "none"

\* the joined handler, suspended at await setupLocalMedia()
JoinedTask(peers) == [handler |-> "joined", at |-> "setupLocalMedia", peers |-> peers, peer |-> NoPeer]

\* the signal handler of an offer or answer, suspended at await pc.setRemoteDescription
SignalTask(from, type) ==
    [handler |-> "signal", at |-> "setRemoteDescription", from |-> from, type |-> type,
     queue |-> <<>>, idx |-> 0]

\* the joined handler after the offer to one peer was sent or has thrown: the next
\* peer of the loop, or the end of the handler
AfterOffer(t) == IF t.peers = {} THEN <<>> ELSE <<[t EXCEPT !.at = "offers", !.peer = NoPeer]>>

\* closePeer(id): pc.close() makes the suspended handlers that use this connection throw
RECURSIVE ClosePeerTasks(_, _)
ClosePeerTasks(seq, id) ==
    IF seq = <<>> THEN <<>>
    ELSE LET t == Head(seq)
             rest == ClosePeerTasks(Tail(seq), id)
         IN  IF t.handler = "signal" /\ t.from = id THEN rest
             ELSE IF t.handler = "joined" /\ t.at = "createOffer" /\ t.peer = id
                  THEN AfterOffer(t) \o rest
             ELSE <<t>> \o rest

\* cleanupAllPeers(): closePeer for every key of peerMapRef
RECURSIVE CleanupAllPeersTasks(_)
CleanupAllPeersTasks(seq) ==
    IF seq = <<>> THEN <<>>
    ELSE LET t == Head(seq)
             rest == CleanupAllPeersTasks(Tail(seq))
         IN  IF t.handler = "signal" THEN rest
             ELSE IF t.at = "createOffer" THEN AfterOffer(t) \o rest
             ELSE <<t>> \o rest

\* socket.on("connect"): socket.emit("join", { roomId, name })
OnConnect(s) ==
    /\ phase[s] = "new"
    /\ Join(s, ClientRoom, NoName)
    /\ phase' = [phase EXCEPT ![s] = "open"]
    /\ Received
    /\ UNCHANGED <<memberState, selfRole, peerMap, localStream, tasks, offers>>

\* { name, muted, videoOn, handRaised, role } of a peers entry or a peer-joined message
MemberStateOf(p) ==
    [name |-> p.name, muted |-> p.muted, videoOn |-> p.videoOn,
     handRaised |-> p.handRaised, role |-> p.role]

\* for (const p of payload.peers) memberStateRef.current.set(p.id, {...})
SetPeers(ms, peers) ==
    [id \in DOMAIN ms \cup {p.id : p \in peers} |->
        IF \E p \in peers : p.id = id
        THEN MemberStateOf(CHOOSE p \in peers : p.id = id)
        ELSE ms[id]]

\* mutant: the joined handler offers to nobody
OfferTargetsNone(peers) == {}

\* for (const peer of payload.peers): the ids the joined handler offers to
OfferTargets(peers) == {p.id : p \in peers}

\* socket.on("joined") up to await setupLocalMedia()
OnJoined(s) ==
    /\ Listening(s)
    /\ inbox[s] # <<>> /\ Head(inbox[s]).type = "joined"
    /\ LET peers == Head(inbox[s]).body.peers
       IN  /\ memberState' = [memberState EXCEPT ![s] = SetPeers(@, peers)]
           /\ tasks' = [tasks EXCEPT ![s] = Append(@, JoinedTask(OfferTargets(peers)))]
    /\ selfRole' = [selfRole EXCEPT ![s] = Head(inbox[s]).body.selfRole]
    /\ inbox' = [inbox EXCEPT ![s] = Tail(@)]
    /\ UNCHANGED <<peerMap, localStream, phase, offers>>
    /\ ServerIdle

\* setupLocalMedia() resolves: localStreamRef.current = stream, and the joined handler
\* goes on to its loop over payload.peers
SetupLocalMedia(s) ==
    /\ \E i \in 1..Len(tasks[s]) :
         /\ tasks[s][i].handler = "joined" /\ tasks[s][i].at = "setupLocalMedia"
         /\ tasks' = [tasks EXCEPT ![s] =
                        SubSeq(@, 1, i - 1) \o AfterOffer(tasks[s][i]) \o SubSeq(@, i + 1, Len(@))]
    /\ localStream' = [localStream EXCEPT ![s] = TRUE]
    /\ UNCHANGED <<inbox, memberState, selfRole, peerMap, phase, offers>>
    /\ ServerIdle

\* getUserMedia rejects: catch (e) { setError(String(e)); return; }
SetupLocalMediaFails(s) ==
    /\ \E i \in 1..Len(tasks[s]) :
         /\ tasks[s][i].handler = "joined" /\ tasks[s][i].at = "setupLocalMedia"
         /\ tasks' = [tasks EXCEPT ![s] = RemoveAt(@, i)]
    /\ UNCHANGED <<inbox, memberState, selfRole, peerMap, localStream, phase, offers>>
    /\ ServerIdle

\* const pc = ensurePeerConnection(peerId, true); await pc.createOffer()
CreateOffer(s) ==
    /\ \E i \in 1..Len(tasks[s]) :
         /\ tasks[s][i].handler = "joined" /\ tasks[s][i].at = "offers"
         /\ \E p \in tasks[s][i].peers :
              /\ peerMap' = [peerMap EXCEPT ![s] = EnsurePeerConnection(@, localStream[s], p, TRUE)]
              /\ tasks' = [tasks EXCEPT ![s][i] =
                             [@ EXCEPT !.at = "createOffer", !.peer = p, !.peers = @ \ {p}]]
    /\ UNCHANGED <<inbox, memberState, selfRole, localStream, phase, offers>>
    /\ ServerIdle

OfferPayload(to) == [roomId |-> ClientRoom, type |-> "offer", sdp |-> "sdp", to |-> to]

AnswerPayload(to) == [roomId |-> ClientRoom, type |-> "answer", sdp |-> "sdp", to |-> to]

CandidatePayload(to, c) == [roomId |-> ClientRoom, type |-> "candidate", candidate |-> c, to |-> to]

\* await pc.setLocalDescription(offer); socket.emit("signal", { roomId, type: "offer", ... })
SendOffer(s) ==
    /\ \E i \in 1..Len(tasks[s]) :
         /\ tasks[s][i].handler = "joined" /\ tasks[s][i].at = "createOffer"
         /\ Signal(s, OfferPayload(tasks[s][i].peer))
         /\ offers' = offers \cup {<<s, tasks[s][i].peer>>}
         /\ tasks' = [tasks EXCEPT ![s] =
                        SubSeq(@, 1, i - 1) \o AfterOffer(tasks[s][i]) \o SubSeq(@, i + 1, Len(@))]
    /\ Received
    /\ UNCHANGED <<memberState, selfRole, peerMap, localStream, phase>>

\* socket.on("peer-joined"): memberStateRef.set; ensurePeerConnection(id, false)
OnPeerJoined(s) ==
    /\ Listening(s)
    /\ inbox[s] # <<>> /\ Head(inbox[s]).type = "peer-joined"
    /\ LET m == Head(inbox[s]).body
       IN  /\ memberState' = [memberState EXCEPT ![s] = MapSet(@, m.id, MemberStateOf(m))]
           /\ peerMap' = [peerMap EXCEPT ![s] = EnsurePeerConnection(@, localStream[s], m.id, FALSE)]
    /\ inbox' = [inbox EXCEPT ![s] = Tail(@)]
    /\ UNCHANGED <<selfRole, localStream, tasks, phase, offers>>
    /\ ServerIdle

\* mutant: peer-left leaves the entry of memberStateRef in place
ForgetMemberKeeps(ms, id) == ms

\* memberStateRef.current.delete(id)
ForgetMember(ms, id) == MapDelete(ms, id)

\* socket.on("peer-left"): closePeer(id); memberStateRef.current.delete(id)
OnPeerLeft(s) ==
    /\ Listening(s)
    /\ inbox[s] # <<>> /\ Head(inbox[s]).type = "peer-left"
    /\ LET id == Head(inbox[s]).body.id
       IN  /\ peerMap' = [peerMap EXCEPT ![s] = MapDelete(@, id)]
           /\ tasks' = [tasks EXCEPT ![s] = ClosePeerTasks(@, id)]
           /\ memberState' = [memberState EXCEPT ![s] = ForgetMember(@, id)]
    /\ inbox' = [inbox EXCEPT ![s] = Tail(@)]
    /\ UNCHANGED <<selfRole, localStream, phase, offers>>
    /\ ServerIdle

\* mutant: a candidate that has to wait replaces the queue
QueueCandidateLast(queue, c) == <<c>>

\* state.pendingCandidates.push(msg.candidate)
QueueCandidate(queue, c) == Append(queue, c)

\* the candidate branch: queued when pc.remoteDescription is not set, else addIceCandidate
OnCandidate(peer, c) ==
    IF ~peer.remoteDescription
    THEN [peer EXCEPT !.pendingCandidates = QueueCandidate(@, c)]
    ELSE [peer EXCEPT !.candidates = Append(@, c)]

\* socket.on("signal") up to its first await
OnSignal(s) ==
    /\ Listening(s)
    /\ inbox[s] # <<>> /\ Head(inbox[s]).type = "signal"
    /\ LET msg == Head(inbox[s]).body
           pm == EnsurePeerConnection(peerMap[s], localStream[s], msg.from, FALSE)
       IN  IF msg.type = "candidate"
           THEN /\ peerMap' = [peerMap EXCEPT ![s] = [pm EXCEPT ![msg.from] = OnCandidate(@, msg.candidate)]]
                /\ UNCHANGED tasks
           ELSE /\ peerMap' = [peerMap EXCEPT ![s] = pm]
                /\ tasks' = [tasks EXCEPT ![s] = Append(@, SignalTask(msg.from, msg.type))]
    /\ inbox' = [inbox EXCEPT ![s] = Tail(@)]
    /\ UNCHANGED <<memberState, selfRole, localStream, phase, offers>>
    /\ ServerIdle

\* await pc.setRemoteDescription(...) resolves; the handler starts on
\* for (const c of state.pendingCandidates)
SetRemoteDescription(s) ==
    /\ \E i \in 1..Len(tasks[s]) :
         LET t == tasks[s][i]
         IN  /\ t.handler = "signal" /\ t.at = "setRemoteDescription"
             /\ peerMap' = [peerMap EXCEPT ![s][t.from].remoteDescription = TRUE]
             /\ tasks' = [tasks EXCEPT ![s][i] =
                            [t EXCEPT !.at = "flush", !.queue = peerMap[s][t.from].pendingCandidates,
                                      !.idx = 1]]
    /\ UNCHANGED <<inbox, memberState, selfRole, localStream, phase, offers>>
    /\ ServerIdle

\* await pc.addIceCandidate(new RTCIceCandidate(c)) for the next queued candidate
AddIceCandidate(s) ==
    /\ \E i \in 1..Len(tasks[s]) :
         LET t == tasks[s][i]
         IN  /\ t.handler = "signal" /\ t.at = "flush" /\ t.idx <= Len(t.queue)
             /\ peerMap' = [peerMap EXCEPT ![s][t.from].candidates = Append(@, t.queue[t.idx])]
             /\ tasks' = [tasks EXCEPT ![s][i].idx = @ + 1]
    /\ UNCHANGED <<inbox, memberState, selfRole, localStream, phase, offers>>
    /\ ServerIdle

\* state.pendingCandidates = []; for an offer the handler goes on to createAnswer
FlushDone(s) ==
    /\ \E i \in 1..Len(tasks[s]) :
         LET t == tasks[s][i]
         IN  /\ t.handler = "signal" /\ t.at = "flush" /\ t.idx > Len(t.queue)
             /\ peerMap' = [peerMap EXCEPT ![s][t.from].pendingCandidates = <<>>]
             /\ tasks' = [tasks EXCEPT ![s] =
                            IF t.type = "offer"
                            THEN [@ EXCEPT ![i] = [t EXCEPT !.at = "createAnswer"]]
                            ELSE RemoveAt(@, i)]
    /\ UNCHANGED <<inbox, memberState, selfRole, localStream, phase, offers>>
    /\ ServerIdle

\* createAnswer, setLocalDescription, socket.emit("signal", { roomId, type: "answer", ... })
SendAnswer(s) ==
    /\ \E i \in 1..Len(tasks[s]) :
         /\ tasks[s][i].handler = "signal" /\ tasks[s][i].at = "createAnswer"
         /\ Signal(s, AnswerPayload(tasks[s][i].from))
         /\ tasks' = [tasks EXCEPT ![s] = RemoveAt(@, i)]
    /\ Received
    /\ UNCHANGED <<memberState, selfRole, peerMap, localStream, phase, offers>>

\* pc.onicecandidate of the connection to peerId: socket.emit("signal", { roomId,
\* type: "candidate", candidate, to: peerId })
OnIceCandidate(s, peerId) ==
    /\ peerId \in DOMAIN peerMap[s]
    /\ peerMap[s][peerId].iceSent < MaxCandidates
    /\ Signal(s, CandidatePayload(peerId, peerMap[s][peerId].iceSent + 1))
    /\ peerMap' = [peerMap EXCEPT ![s][peerId].iceSent = @ + 1]
    /\ Received
    /\ UNCHANGED <<memberState, selfRole, localStream, tasks, phase, offers>>

\* hangup(): emit leave, cleanupAllPeers(), localStreamRef.current = null, router.push
Hangup(s) ==
    /\ phase[s] = "open"
    /\ Leave(s, ClientRoom)
    /\ peerMap' = [peerMap EXCEPT ![s] = EmptyMap]
    /\ tasks' = [tasks EXCEPT ![s] = CleanupAllPeersTasks(@)]
    /\ localStream' = [localStream EXCEPT ![s] = FALSE]
    /\ phase' = [phase EXCEPT ![s] = "left"]
    /\ Received
    /\ UNCHANGED <<memberState, selfRole, offers>>

\* the unmount of the page: removeAllListeners(), socket.disconnect(),
\* cleanupAllPeers(); the page and its refs are gone
Unmount(s) ==
    /\ Listening(s)
    /\ Disconnect(s)
    /\ phase' = [phase EXCEPT ![s] = "closed"]
    /\ inbox' = [Deliver(sent') EXCEPT ![s] = <<>>]
    /\ \A x \in Sessions : Len(inbox'[x]) <= MaxInbox
    /\ selfRole' = [selfRole EXCEPT ![s] = "none"]
    /\ memberState' = [memberState EXCEPT ![s] = EmptyMap]
    /\ peerMap' = [peerMap EXCEPT ![s] = EmptyMap]
    /\ tasks' = [tasks EXCEPT ![s] = <<>>]
    /\ localStream' = [localStream EXCEPT ![s] = FALSE]
    /\ UNCHANGED offers

\* an emit that changes nothing in the page
Emitted == Received /\ UNCHANGED <<memberState, selfRole, peerMap, localStream, tasks, phase, offers>>

\* the lock, admit and deny buttons are rendered when selfRole === 'host'
HostControls(s) == phase[s] = "open" /\ selfRole[s] = "host"

\* setLocked(next): socket.emit("lock-room", { roomId, locked: next })
SetLocked(s, locked) == HostControls(s) /\ LockRoom(s, ClientRoom, locked) /\ Emitted

\* admit(id): socket.emit("admit", { roomId, id })
AdmitClick(s, id) == HostControls(s) /\ Admit(s, ClientRoom, id) /\ Emitted

\* deny(id): socket.emit("deny", { roomId, id })
DenyClick(s, id) == HostControls(s) /\ Deny(s, ClientRoom, id) /\ Emitted

\* SpecClient: room pages in one room: connect and join, the handlers of joined,
\* peer-joined, peer-left and signal up to the await of setRemoteDescription, hangup
\* and unmount
NextClient ==
    \/ Connect /\ NoClient
    \/ \E s \in Sessions : OnConnect(s)
    \/ \E s \in Sessions : OnJoined(s)
    \/ \E s \in Sessions : SetupLocalMedia(s)
    \/ \E s \in Sessions : SetupLocalMediaFails(s)
    \/ \E s \in Sessions : CreateOffer(s)
    \/ \E s \in Sessions : SendOffer(s)
    \/ \E s \in Sessions : OnPeerJoined(s)
    \/ \E s \in Sessions : OnPeerLeft(s)
    \/ \E s \in Sessions : OnSignal(s)
    \/ \E s \in Sessions : Hangup(s)
    \/ \E s \in Sessions : Unmount(s)

SpecClient == Init /\ [][NextClient]_vars

\* SpecIce: room pages in one room that stay: connect and join, the offers of the later
\* joiner, the candidates of the ICE agents, and the signal handler with its awaits
NextIce ==
    \/ Connect /\ NoClient
    \/ \E s \in Sessions : OnConnect(s)
    \/ \E s \in Sessions : OnJoined(s)
    \/ \E s \in Sessions : SetupLocalMedia(s)
    \/ \E s \in Sessions : CreateOffer(s)
    \/ \E s \in Sessions : SendOffer(s)
    \/ \E s \in Sessions : OnPeerJoined(s)
    \/ \E s \in Sessions, peerId \in Sessions : OnIceCandidate(s, peerId)
    \/ \E s \in Sessions : OnSignal(s)
    \/ \E s \in Sessions : SetRemoteDescription(s)
    \/ \E s \in Sessions : AddIceCandidate(s)
    \/ \E s \in Sessions : FlushDone(s)
    \/ \E s \in Sessions : SendAnswer(s)

SpecIce == Init /\ [][NextIce]_vars

\* SpecView: room pages in one room: connect and join, lock-room, admit and deny,
\* hangup and unmount, and the handlers of joined, peer-joined and peer-left
NextView ==
    \/ Connect /\ NoClient
    \/ \E s \in Sessions : OnConnect(s)
    \/ \E s \in Sessions, locked \in BOOLEAN : SetLocked(s, locked)
    \/ \E s \in Sessions, id \in Sessions : AdmitClick(s, id)
    \/ \E s \in Sessions, id \in Sessions : DenyClick(s, id)
    \/ \E s \in Sessions : OnJoined(s)
    \/ \E s \in Sessions : OnPeerJoined(s)
    \/ \E s \in Sessions : OnPeerLeft(s)
    \/ \E s \in Sessions : Hangup(s)
    \/ \E s \in Sessions : Unmount(s)

SpecView == Init /\ [][NextView]_vars

\* ================================================================= claims
\* the keys of room r's members / waiting map; empty when the room is not in the table
Mem(r) == IF r \in DOMAIN rooms THEN DOMAIN rooms[r].members ELSE {}

Wait(r) == IF r \in DOMAIN rooms THEN DOMAIN rooms[r].waiting ELSE {}

\* the members of room r whose stored role is host
Hosts(r) == {m \in Mem(r) : rooms[r].members[m].role = "host"}

\* the emit calls of the last handler that carry `type` and reach socket x
Got(type, x) == {i \in 1..Len(sent) : sent[i].type = type /\ x \in sent[i].to}

RoomFullError(s) == [type |-> "error", to |-> {s}, body |-> [message |-> "room-full"]]

\* C1: in every reachable state no room has more than MAX_ROOM_SIZE members.
C1_MembersWithinCapacity == \A r \in DOMAIN rooms : Size(rooms[r].members) <= MAX_ROOM_SIZE

\* C2: under join events alone every room stays within MAX_ROOM_SIZE members, and a
\* join processed while the room holds MAX_ROOM_SIZE members is answered with
\* error("room-full") and leaves the room as it was.
C2_JoinsRespectCapacity ==
    [][/\ \A r \in DOMAIN rooms' : Cardinality(DOMAIN rooms'[r].members) <= MAX_ROOM_SIZE
       /\ \A r \in DOMAIN rooms :
            (ev'.type = "join" /\ ev'.roomId = r
                /\ Cardinality(DOMAIN rooms[r].members) = MAX_ROOM_SIZE)
            => (sent' = <<RoomFullError(ev'.from)>> /\ rooms'[r] = rooms[r])]_vars

C2_Witness ==
    /\ ev.type = "join"
    /\ sent = <<RoomFullError(ev.from)>>
    /\ Cardinality(Mem(ev.roomId)) = MAX_ROOM_SIZE
    /\ ev.from \notin Mem(ev.roomId)

\* C3: a join rejected for capacity changes neither the room table nor any
\* subscription, and emits error("room-full") to the joiner and nothing else.
C3_RejectedJoinChangesNothing ==
    [][(ev'.type = "join" /\ Cardinality(Mem(ev'.roomId)) >= MAX_ROOM_SIZE)
        => (rooms' = rooms /\ subs' = subs /\ sockets' = sockets
            /\ sent' = <<RoomFullError(ev'.from)>>)]_vars

C3_Witness ==
    /\ ev.type = "join"
    /\ sent = <<RoomFullError(ev.from)>>
    /\ ev.from \notin Mem(ev.roomId) \cup Wait(ev.roomId)
    /\ rooms[ev.roomId].locked
    /\ Wait(ev.roomId) # {}

\* C4: in every reachable state every room of the table has exactly one member whose
\* role is host.
C4_ExactlyOneHost == \A r \in DOMAIN rooms : Cardinality(Hosts(r)) = 1

\* C5: a session that becomes a member while the members map is empty (no such room)
\* is stored with role host, and one that becomes a member of a room that already
\* has members, by join or by admit, is stored with role guest.
C5_FirstIsHostLaterAreGuests ==
    [][\A r \in DOMAIN rooms' : \A s \in DOMAIN rooms'[r].members :
          s \notin Mem(r)
            => rooms'[r].members[s].role = (IF Mem(r) = {} THEN "host" ELSE "guest")]_vars

C5_Witness ==
    /\ ev.type = "admit"
    /\ ev.id \in Mem(ev.roomId)
    /\ rooms[ev.roomId].members[ev.id].role = "guest"
    /\ \E h \in Mem(ev.roomId) : h # ev.id /\ rooms[ev.roomId].members[h].role = "host"

\* the stored role of ev'.from in room r is host before the step (written out here,
\* apart from the handlers' own check)
SenderIsHost(r) ==
    /\ r \in DOMAIN rooms
    /\ ev'.from \in DOMAIN rooms[r].members
    /\ rooms[r].members[ev'.from].role = "host"

\* C6: a join processed while the room is locked, has a member and is below capacity
\* puts the joiner in waiting and not in members, and a session that is waiting and
\* not a member becomes a member only in the step that processes the host's admit
\* for it.
C6_WaitsUntilAdmitted ==
    [][\A r \in DOMAIN rooms : \A s \in Sessions :
          /\ (ev'.type = "join" /\ ev'.from = s /\ ev'.roomId = r /\ rooms[r].locked
                /\ Size(rooms[r].members) > 0 /\ Size(rooms[r].members) < MAX_ROOM_SIZE)
                => (r \in DOMAIN rooms' /\ s \in DOMAIN rooms'[r].waiting
                        /\ s \notin DOMAIN rooms'[r].members)
          /\ (s \in Wait(r) /\ s \notin Mem(r)
                /\ r \in DOMAIN rooms' /\ s \in DOMAIN rooms'[r].members)
                => (ev'.type = "admit" /\ ev'.id = s /\ ev'.roomId = r /\ SenderIsHost(r))]_vars

\* C7: when the host admits waiting session w, in that one step w leaves waiting and
\* is a member with role guest, every other member present before is reached by
\* exactly one peer-joined (carrying w), w by none, and w by exactly one joined whose
\* peers are the members after the step other than w.
C7_AdmitIsAtomic ==
    [][\A r \in DOMAIN rooms : \A w \in DOMAIN rooms[r].waiting :
          (ev'.type = "admit" /\ ev'.roomId = r /\ ev'.id = w /\ SenderIsHost(r))
          => /\ r \in DOMAIN rooms'
             /\ w \notin DOMAIN rooms'[r].waiting
             /\ w \in DOMAIN rooms'[r].members
             /\ rooms'[r].members[w].role = "guest"
             /\ \A m \in Mem(r) \ {w} :
                    Cardinality({i \in 1..Len(sent') : sent'[i].type = "peer-joined"
                                    /\ m \in sent'[i].to /\ sent'[i].body.id = w}) = 1
             /\ \A i \in 1..Len(sent') : sent'[i].type = "peer-joined"
                    => (w \notin sent'[i].to /\ sent'[i].body.id = w)
             /\ Cardinality({i \in 1..Len(sent') : sent'[i].type = "joined"
                                    /\ w \in sent'[i].to}) = 1
             /\ \A i \in 1..Len(sent') : (sent'[i].type = "joined" /\ w \in sent'[i].to)
                    => /\ sent'[i].body.selfId = w
                       /\ {p.id : p \in sent'[i].body.peers} = DOMAIN rooms'[r].members \ {w}
                       /\ \A p \in sent'[i].body.peers :
                            p.role = rooms'[r].members[p.id].role]_vars

C7_Witness ==
    /\ ev.type = "admit"
    /\ Got("joined", ev.id) # {}
    /\ Cardinality(Mem(ev.roomId) \ {ev.id}) >= 2
    /\ \A m \in Mem(ev.roomId) \ {ev.id} : Cardinality(Got("peer-joined", m)) = 1

\* C8: when the host denies waiting session w, w leaves waiting, exactly one denied is
\* emitted and it reaches w alone, w is not a member after the step, and afterwards a
\* session enters members or waiting only by its own join or by an admit out of waiting.
C8_DeniedStaysOut ==
    [][\A r \in DOMAIN rooms : \A w \in Sessions :
          /\ (w \in DOMAIN rooms[r].waiting
                /\ ev'.type = "deny" /\ ev'.roomId = r /\ ev'.id = w /\ SenderIsHost(r))
             => /\ w \notin DOMAIN rooms'[r].waiting
                /\ Cardinality({i \in 1..Len(sent') : sent'[i].type = "denied"}) = 1
                /\ \A i \in 1..Len(sent') : sent'[i].type = "denied" => sent'[i].to = {w}
                /\ w \notin DOMAIN rooms'[r].members
          /\ (r \in DOMAIN rooms' /\ w \notin Mem(r) /\ w \in DOMAIN rooms'[r].members)
             => \/ ev'.type = "join" /\ ev'.from = w /\ ev'.roomId = r
                \/ ev'.type = "admit" /\ ev'.id = w /\ ev'.roomId = r /\ w \in Wait(r)
          /\ (r \in DOMAIN rooms' /\ w \notin Wait(r) /\ w \in DOMAIN rooms'[r].waiting)
             => (ev'.type = "join" /\ ev'.from = w /\ ev'.roomId = r)]_vars

\* C9: a lock-room, admit or deny whose sender is not stored as host of the named room
\* changes neither the room table nor the subscriptions and emits nothing.
C9_NonHostIsIgnored ==
    [][(ev'.type \in {"lock-room", "admit", "deny"} /\ ~SenderIsHost(ev'.roomId))
        => (rooms' = rooms /\ subs' = subs /\ sockets' = sockets /\ sent' = <<>>)]_vars

C9_Witness ==
    /\ ev.type = "admit"
    /\ ev.from \in Mem(ev.roomId)
    /\ rooms[ev.roomId].members[ev.from].role = "guest"
    /\ ev.id \in Wait(ev.roomId)
    /\ ev.id \notin Mem(ev.roomId)
    /\ sent = <<>>

\* C10: a signal event is emitted, once, to its target alone, carrying the payload's
\* fields with from set to the sender, exactly when the named room is in the table
\* and the target is a key of its members; otherwise nothing is emitted.  The room
\* table is untouched either way.
C10_SignalReachesMembersOnly ==
    [][ev'.type = "signal"
        => LET p == ev'.payload
           IN  /\ rooms' = rooms /\ subs' = subs
               /\ IF p.to \in Mem(p.roomId)
                  THEN /\ Len(sent') = 1
                       /\ sent'[1].type = "signal"
                       /\ sent'[1].to = {p.to}
                       /\ DOMAIN sent'[1].body = DOMAIN p \cup {"from"}
                       /\ sent'[1].body.from = ev'.from
                       /\ \A k \in DOMAIN p \ {"from"} : sent'[1].body[k] = p[k]
                  ELSE sent' = <<>>]_vars

C10_Witness ==
    /\ ev.type = "signal"
    /\ Len(sent) = 1
    /\ sent[1].to = {ev.payload.to}
    /\ sent[1].body.from = ev.from
    /\ ev.from \notin Mem(ev.roomId)
    /\ Wait(ev.roomId) # {}

\* C11: a signal, chat or reaction event naming room R whose sender is not in
\* R.members when it is processed is delivered to no member of R.
C11_NonMemberSenderReachesNoMember ==
    [][(ev'.type \in {"signal", "chat", "reaction"} /\ ev'.from \notin Mem(ev'.roomId))
        => \A i \in 1..Len(sent') : sent'[i].to \cap Mem(ev'.roomId) = {}]_vars

\* the emit calls of the step's handler that carry peer-left with id s and reach m
PeerLeftTo(m, s) ==
    {i \in 1..Len(sent') : sent'[i].type = "peer-left" /\ sent'[i].body = [id |-> s]
                            /\ m \in sent'[i].to}

\* C12: after a disconnect the session is in no room's members and in no room's
\* waiting map, every room it was the last member of is gone from the table, and
\* every other session receives one peer-left carrying its id for each room in which
\* the two were members together, in however many rooms that is.
C12_DisconnectCleansEveryRoom ==
    [][ev'.type = "disconnecting" =>
        LET s == ev'.from
        IN  /\ \A r \in DOMAIN rooms' :
                  s \notin DOMAIN rooms'[r].members /\ s \notin DOMAIN rooms'[r].waiting
            /\ \A r \in DOMAIN rooms : DOMAIN rooms[r].members = {s} => r \notin DOMAIN rooms'
            /\ \A r \in DOMAIN rooms' : DOMAIN rooms'[r].members # {}
            /\ \A m \in Sessions \ {s} :
                  Cardinality(PeerLeftTo(m, s))
                    = Cardinality({r \in DOMAIN rooms : {s, m} \subseteq DOMAIN rooms[r].members})]_vars

\* a disconnect of a session that was a member of both rooms, each with another member
C12_Witness ==
    /\ ev.type = "disconnecting"
    /\ Cardinality({i \in 1..Len(sent) : sent[i].type = "peer-left" /\ sent[i].to # {}}) = 2
    /\ \A r \in RoomIds : r \in DOMAIN rooms

\* C13: after a leave for room R is processed the sender is in neither R.members nor
\* R.waiting, and when it was in R.waiting the remaining members of R are sent the
\* updated waiting list.
C13_LeaveClearsWaiting ==
    [][ev'.type = "leave" =>
        LET s == ev'.from
            r == ev'.roomId
        IN  r \in DOMAIN rooms' =>
              /\ s \notin DOMAIN rooms'[r].members
              /\ s \notin DOMAIN rooms'[r].waiting
              /\ s \in Wait(r) =>
                   \A m \in DOMAIN rooms'[r].members :
                       \E i \in 1..Len(sent') :
                           /\ sent'[i].type = "waiting-list"
                           /\ m \in sent'[i].to
                           /\ sent'[i].body = [list |-> WaitingList(rooms'[r])]]_vars

\* C14: a peer-left message that reaches some session is emitted only by a leave or
\* disconnect of the session whose id it carries, and only when that session was in
\* the members map of the room it leaves (of some room, for a disconnect)
\* immediately before; a leave by a non-member produces no delivered peer-left.
C14_PeerLeftOnlyForMembers ==
    [][\A i \in 1..Len(sent') :
          (sent'[i].type = "peer-left" /\ sent'[i].to # {})
            => /\ ev'.type \in {"leave", "disconnecting"}
               /\ sent'[i].body = [id |-> ev'.from]
               /\ ev'.type = "leave" => ev'.from \in Mem(ev'.roomId)
               /\ ev'.type = "disconnecting" => \E r \in DOMAIN rooms : ev'.from \in Mem(r)]_vars

\* C15: in every reachable state a session id is a key of at most one room's members
\* map and of at most one room's waiting map, and of no room's members and waiting
\* map together.
C15_OneRoomOnePlace ==
    \A s \in Sessions :
        /\ Cardinality({r \in DOMAIN rooms : s \in Mem(r)}) <= 1
        /\ Cardinality({r \in DOMAIN rooms : s \in Wait(r)}) <= 1
        /\ \A r \in DOMAIN rooms : ~(s \in Mem(r) /\ s \in Wait(r))

\* session s, in room r's waiting map before the step, is not in it after the step
LeavesWaiting(r, s) ==
    /\ r \in DOMAIN rooms
    /\ s \in DOMAIN rooms[r].waiting
    /\ r \in DOMAIN rooms' => s \notin DOMAIN rooms'[r].waiting

\* the step processes `type` (admit or deny) for s in room r, sent by a stored host
HostActsOn(type, r, s) ==
    ev'.type = type /\ ev'.roomId = r /\ ev'.id = s /\ SenderIsHost(r)

\* the step removes room r from the table: its last member leaves or disconnects
RoomDeleted(r) ==
    /\ r \in DOMAIN rooms
    /\ r \notin DOMAIN rooms'
    /\ ev'.type \in {"leave", "disconnecting"}
    /\ DOMAIN rooms[r].members = {ev'.from}

\* C16 as stated: a waiting entry leaves a room's waiting map only in a step that
\* processes the host's admit or deny for it or the waiting session's disconnect.
C16_RemovedOnlyByAdmitDenyDisconnect ==
    [][\A r \in RoomIds, s \in Sessions :
          LeavesWaiting(r, s)
            => \/ HostActsOn("admit", r, s)
               \/ HostActsOn("deny", r, s)
               \/ (ev'.type = "disconnecting" /\ ev'.from = s)]_vars

\* C16 amended: a waiting entry leaves a room's waiting map only in a step that
\* processes the host's admit or deny for it, the waiting session's disconnect, or
\* the leave or disconnect of the room's last member, which deletes the room; unlock
\* and any other session's leave or disconnect keep it.
C16_RemovedOnlyByAdmitDenyDisconnectOrRoomDeletion ==
    [][\A r \in RoomIds, s \in Sessions :
          LeavesWaiting(r, s)
            => \/ HostActsOn("admit", r, s)
               \/ HostActsOn("deny", r, s)
               \/ (ev'.type = "disconnecting" /\ ev'.from = s)
               \/ RoomDeleted(r)]_vars

\* a deny has just removed one waiting entry while another stays in the map
C16_Witness ==
    /\ ev.type = "deny"
    /\ \E i \in 1..Len(sent) : sent[i].type = "denied" /\ sent[i].to = {ev.id}
    /\ ev.id \notin Wait(ev.roomId)
    /\ Wait(ev.roomId) # {}

\* C17: in every reachable state every room of the table has at least one member;
\* a room whose last member leaves or disconnects is gone from the table after that
\* step, and a join to a room id that is not in the table leaves a room that is
\* unlocked, has an empty waiting map, and holds the joiner alone, stored as host.
C17_NoEmptyRoomFreshOnRejoin ==
    [][/\ \A r \in DOMAIN rooms' : DOMAIN rooms'[r].members # {}
       /\ \A r \in DOMAIN rooms :
            (ev'.type \in {"leave", "disconnecting"} /\ DOMAIN rooms[r].members = {ev'.from}
                /\ (ev'.type = "leave" => ev'.roomId = r))
            => r \notin DOMAIN rooms'
       /\ (ev'.type = "join" /\ ev'.roomId \notin DOMAIN rooms /\ MAX_ROOM_SIZE > 0)
            => LET r == ev'.roomId
               IN  /\ r \in DOMAIN rooms'
                   /\ ~rooms'[r].locked
                   /\ DOMAIN rooms'[r].waiting = {}
                   /\ DOMAIN rooms'[r].members = {ev'.from}
                   /\ rooms'[r].members[ev'.from].role = "host"]_vars

\* the last member of the only room has just disconnected and the table is empty
C17_Witness ==
    /\ ev.type = "disconnecting"
    /\ \E i \in 1..Len(sent) : sent[i] = Emit("peer-left", {}, [id |-> ev.from])
    /\ DOMAIN rooms = {}
    /\ sockets # {}

\* C18: a join to a room that is locked and holds MAX_ROOM_SIZE members is answered
\* with error("room-full") alone: the room's waiting map is left as it was and no
\* waiting message is emitted.
C18_FullBeforeLocked ==
    [][\A r \in DOMAIN rooms :
          (ev'.type = "join" /\ ev'.roomId = r /\ rooms[r].locked
              /\ Cardinality(DOMAIN rooms[r].members) = MAX_ROOM_SIZE)
            => /\ sent' = <<RoomFullError(ev'.from)>>
               /\ r \in DOMAIN rooms'
               /\ rooms'[r].waiting = rooms[r].waiting
               /\ \A i \in 1..Len(sent') : sent'[i].type # "waiting"]_vars

\* a session outside a locked room of MAX_ROOM_SIZE members has just been told room-full
C18_Witness ==
    /\ ev.type = "join"
    /\ ev.roomId \in DOMAIN rooms
    /\ rooms[ev.roomId].locked
    /\ Cardinality(Mem(ev.roomId)) = MAX_ROOM_SIZE
    /\ ev.from \notin Mem(ev.roomId)
    /\ ev.from \notin Wait(ev.roomId)
    /\ \E i \in 1..Len(sent) : sent[i] = RoomFullError(ev.from)

\* C19: a state-update from a member of room R emits one state-update message,
\* carrying the sender's id and the partial, to exactly the other members of R; a
\* state-update from a session that is not a member of R changes neither the table
\* nor any subscription and emits nothing.
C19_StateUpdateToOthersOnly ==
    [][ev'.type = "state-update" =>
        LET s == ev'.from
            r == ev'.roomId
        IN  IF s \in Mem(r)
            THEN sent' = <<[type |-> "state-update", to |-> Mem(r) \ {s},
                            body |-> [id |-> s, partial |-> ev'.partial]]>>
            ELSE rooms' = rooms /\ subs' = subs /\ sent' = <<>>]_vars

\* a member's state-update has just been delivered to another member
C19_Witness ==
    /\ ev.type = "state-update"
    /\ ev.from \in Mem(ev.roomId)
    /\ Len(sent) = 1
    /\ sent[1].type = "state-update"
    /\ sent[1].to # {}
    /\ sent[1].to = Mem(ev.roomId) \ {ev.from}

\* the fields of a stored member state
StateFields == {"name", "muted", "videoOn", "handRaised", "role"}

\* the step's handler stores a new state for m in room r: it sends m a joined message
Added(r, m) ==
    /\ ev'.type \in {"join", "admit"}
    /\ ev'.roomId = r
    /\ \E i \in 1..Len(sent') : sent'[i].type = "joined" /\ sent'[i].to = {m}

\* what a step may do to the stored state of m, a member of r before and after it
MergedInOrder(r, m) ==
    LET old == rooms[r].members[m]
        new == rooms'[r].members[m]
    IN  IF ev'.type = "state-update" /\ ev'.from = m /\ ev'.roomId = r
        THEN \A k \in StateFields :
                new[k] = IF k \in DOMAIN ev'.partial THEN ev'.partial[k] ELSE old[k]
        ELSE IF ev'.type = "rename" /\ ev'.from = m /\ ev'.roomId = r
        THEN /\ new.name = IF ev'.name # NoName /\ Len(ev'.name) <= NAME_LIMIT
                           THEN ev'.name ELSE old.name
             /\ \A k \in StateFields \ {"name"} : new[k] = old[k]
        ELSE new = old

C21_StateUpdateKeepsRoleAndName ==
    [][\A r \in DOMAIN rooms : \A s \in DOMAIN rooms[r].members :
          (ev'.type = "state-update" /\ ev'.from = s /\ ev'.roomId = r)
            => /\ rooms'[r].members[s].role = rooms[r].members[s].role
               /\ rooms'[r].members[s].name = rooms[r].members[s].name]_vars

\* C22: a lock-room from a member whose stored role is host sets the room's locked
\* flag to the requested value and emits one lock-state message with that value to
\* exactly the members of the room, the sender included; a session that is only in
\* the waiting map receives nothing.
C22_LockStateToMembersOnly ==
    [][\A r \in DOMAIN rooms :
          (ev'.type = "lock-room" /\ ev'.roomId = r /\ SenderIsHost(r))
            => /\ r \in DOMAIN rooms'
               /\ rooms'[r].locked = ev'.locked
               /\ rooms'[r].members = rooms[r].members
               /\ rooms'[r].waiting = rooms[r].waiting
               /\ sent' = <<[type |-> "lock-state", to |-> DOMAIN rooms[r].members,
                             body |-> [locked |-> ev'.locked]]>>
               /\ ev'.from \in sent'[1].to
               /\ \A w \in DOMAIN rooms[r].waiting \ DOMAIN rooms[r].members :
                      \A i \in 1..Len(sent') : w \notin sent'[i].to]_vars

\* the host has just unlocked a room in which a session is waiting
C22_Witness ==
    /\ ev.type = "lock-room"
    /\ ~ev.locked
    /\ Len(sent) = 1
    /\ sent[1].type = "lock-state"
    /\ ev.from \in sent[1].to
    /\ Wait(ev.roomId) \ Mem(ev.roomId) # {}
    /\ ~rooms[ev.roomId].locked

\* the entry a peers list or a peer-joined message holds for member m of room r after
\* the step
PeerEntry(r, m) ==
    [id |-> m,
     name |-> rooms'[r].members[m].name,
     muted |-> rooms'[r].members[m].muted,
     videoOn |-> rooms'[r].members[m].videoOn,
     handRaised |-> rooms'[r].members[m].handRaised,
     role |-> rooms'[r].members[m].role]

\* the members of room r before the step, none when the room is not in the table
MemBefore(r) == IF r \in DOMAIN rooms THEN DOMAIN rooms[r].members ELSE {}

\* a join for room r is taken directly: the room is below capacity and unlocked or empty
JoinsDirectly(r) ==
    /\ ev'.type = "join"
    /\ ev'.roomId = r
    /\ Cardinality(MemBefore(r)) < MAX_ROOM_SIZE
    /\ (r \in DOMAIN rooms => (~rooms[r].locked \/ MemBefore(r) = {}))

\* C23: a direct join emits exactly two messages: joined to the joiner alone, whose
\* peers list holds the room's members other than the joiner, and peer-joined, with
\* the joiner's id and stored state, to exactly the other members of the room.
C23_DirectJoinMessages ==
    [][\A r \in RoomIds :
          JoinsDirectly(r)
            => LET s == ev'.from
                   others == DOMAIN rooms'[r].members \ {s}
               IN  /\ s \in DOMAIN rooms'[r].members
                   /\ others = MemBefore(r) \ {s}
                   /\ Len(sent') = 2
                   /\ sent'[1].type = "joined"
                   /\ sent'[1].to = {s}
                   /\ sent'[1].body.selfId = s
                   /\ sent'[1].body.peers = {PeerEntry(r, m) : m \in others}
                   /\ sent'[2].type = "peer-joined"
                   /\ sent'[2].to = others
                   /\ sent'[2].body = PeerEntry(r, s)]_vars

\* a second session has just joined directly: its peers list holds the first, which
\* is sent the peer-joined
C23_Witness ==
    /\ ev.type = "join"
    /\ Len(sent) = 2
    /\ sent[1].type = "joined"
    /\ sent[1].body.peers # {}
    /\ sent[2].type = "peer-joined"
    /\ sent[2].to # {}
    /\ ev.from \notin sent[2].to

\* the text of the step's chat event is a string with a character other than a space
HasText == ev'.text.str /\ \E i \in 1..Len(ev'.text.val) : ev'.text.val[i] # " "

\* C24: a chat event for a room of the table whose text has a non-blank character
\* emits one chat message, to `to` alone when `to` is a member of the room and
\* otherwise to exactly the members other than the sender, and in neither case to a
\* session that is only waiting; a chat whose text is blank or whose room is not in
\* the table emits nothing.
C24_ChatRouting ==
    [][ev'.type = "chat" =>
        LET s == ev'.from
            r == ev'.roomId
        IN  IF r \in DOMAIN rooms /\ HasText
            THEN /\ Len(sent') = 1
                 /\ sent'[1].type = "chat"
                 /\ sent'[1].body.from = s
                 /\ sent'[1].to = IF ev'.to \in Mem(r) THEN {ev'.to} ELSE Mem(r) \ {s}
                 /\ sent'[1].to \cap (Wait(r) \ Mem(r)) = {}
            ELSE sent' = <<>>]_vars

\* a chat naming a member has just been delivered to that member alone, in a room
\* with a waiting session
C24_Witness ==
    /\ ev.type = "chat"
    /\ Len(sent) = 1
    /\ sent[1].type = "chat"
    /\ sent[1].to = {ev.to}
    /\ ev.to # ev.from
    /\ ev.from \in Mem(ev.roomId)
    /\ Wait(ev.roomId) \ Mem(ev.roomId) # {}

\* C25: no reaction message is emitted to the session that sent the reaction event.
C25_ReactionNotBackToSender ==
    [][ev'.type = "reaction" =>
        \A i \in 1..Len(sent') : ev'.from \notin sent'[i].to]_vars

\* the name a rename stores for a member whose stored name is `stored`
RenamedTo(stored) ==
    IF ev'.name = NoName THEN stored
    ELSE IF Len(ev'.name) <= NAME_LIMIT THEN ev'.name
    ELSE SubSeq(ev'.name, 1, NAME_LIMIT)

\* C26: a rename from a member of room R changes nothing in the table but that
\* member's stored name and emits one state-update, carrying the member's id and the
\* new name, to exactly the members of R, the sender included; a rename from a
\* session that is not a member of R changes nothing and emits nothing.
C26_RenameToWholeRoom ==
    [][ev'.type = "rename" =>
        LET s == ev'.from
            r == ev'.roomId
        IN  IF s \in Mem(r)
            THEN LET new == RenamedTo(rooms[r].members[s].name)
                 IN  /\ DOMAIN rooms' = DOMAIN rooms
                     /\ \A q \in DOMAIN rooms \ {r} : rooms'[q] = rooms[q]
                     /\ rooms'[r].locked = rooms[r].locked
                     /\ rooms'[r].waiting = rooms[r].waiting
                     /\ DOMAIN rooms'[r].members = DOMAIN rooms[r].members
                     /\ \A m \in Mem(r) \ {s} : rooms'[r].members[m] = rooms[r].members[m]
                     /\ rooms'[r].members[s].name = new
                     /\ \A k \in StateFields \ {"name"} :
                            rooms'[r].members[s][k] = rooms[r].members[s][k]
                     /\ sent' = <<[type |-> "state-update", to |-> Mem(r),
                                   body |-> [id |-> s, partial |-> [name |-> new]]]>>
                     /\ s \in sent'[1].to
            ELSE rooms' = rooms /\ subs' = subs /\ sent' = <<>>]_vars

\* a member has just renamed itself and the new name went to it and to another member
C26_Witness ==
    /\ ev.type = "rename"
    /\ ev.name = <<"a">>
    /\ Len(sent) = 1
    /\ sent[1].body = [id |-> ev.from, partial |-> [name |-> <<"a">>]]
    /\ ev.from \in sent[1].to
    /\ sent[1].to # {ev.from}
    /\ rooms[ev.roomId].members[ev.from].name = <<"a">>

\* the event processed last made session s depart from room r: its leave for r, an
\* effective deny of s in r, or its disconnect
Departed(s, r) ==
    \/ ev.type = "leave" /\ ev.from = s /\ ev.roomId = r
    \/ ev.type = "deny" /\ ev.id = s /\ ev.roomId = r /\ sent # <<>>
    \/ ev.type = "disconnecting" /\ ev.from = s

\* C27 (a consequence of it): the event processed right after a session departed
\* from room R by leave, deny or disconnect, unless it is that session's join for R,
\* puts the session neither into R.members nor into R.waiting.
C27_LeftIsTerminal ==
    [][\A s \in Sessions, r \in RoomIds :
          (Departed(s, r) /\ ~(ev'.type = "join" /\ ev'.from = s /\ ev'.roomId = r))
            => (r \in DOMAIN rooms'
                 => /\ (s \in DOMAIN rooms'[r].members => s \in Mem(r))
                    /\ (s \in DOMAIN rooms'[r].waiting => s \in Wait(r)))]_vars

\* C28: a leave or disconnect leaves the stored state, role included, of every
\* session that is a member of a room before and after it as it was.
C28_DepartureKeepsOthersState ==
    [][ev'.type \in {"leave", "disconnecting"} =>
        \A r \in DOMAIN rooms' : \A m \in DOMAIN rooms'[r].members :
            /\ m # ev'.from
            /\ m \in Mem(r)
            /\ rooms'[r].members[m] = rooms[r].members[m]]_vars

\* the host has just left and a guest remains, in a room without a host
C28_Witness ==
    /\ ev.type = "leave"
    /\ ev.from \notin Mem(ev.roomId)
    /\ \E i \in 1..Len(sent) : sent[i].type = "peer-left" /\ sent[i].to # {}
    /\ Mem(ev.roomId) # {}
    /\ \A m \in Mem(ev.roomId) : rooms[ev.roomId].members[m].role = "guest"

\* the state a join without a name stores for session s with the given role
FreshState(s, role) ==
    [name |-> <<"Guest-", s>>, muted |-> FALSE, videoOn |-> TRUE, handRaised |-> FALSE,
     role |-> role]

\* the entry of a peers list or the body of a peer-joined for such a member
FreshEntry(s, role) ==
    [id |-> s, name |-> <<"Guest-", s>>, muted |-> FALSE, videoOn |-> TRUE,
     handRaised |-> FALSE, role |-> role]

\* room r1 is the only room: host and guests are its members, with fresh states, and
\* its subscribers; `waiting` are the keys of its waiting map
RoomIs(host, guests, locked, waiting) ==
    /\ DOMAIN rooms = {"r1"}
    /\ rooms["r1"].locked = locked
    /\ DOMAIN rooms["r1"].members = {host} \cup guests
    /\ rooms["r1"].members[host] = FreshState(host, "host")
    /\ \A g \in guests : rooms["r1"].members[g] = FreshState(g, "guest")
    /\ DOMAIN rooms["r1"].waiting = waiting
    /\ \A w \in waiting : rooms["r1"].waiting[w] = [name |-> <<"Guest-", w>>]
    /\ subs["r1"] = {host} \cup guests

ReachesSomeone(m) == m.to # {}

\* the messages of the step's handler that reach at least one socket, in order
Delivered == SelectSeq(sent', ReachesSomeone)

\* the six steps of the walk-through for sessions A, B, C: from the state the steps
\* before it lead to, each event leads to the next state with the messages listed
Walkthrough(A, B, C) ==
    /\ (DOMAIN rooms = {} /\ subs["r1"] = {}
          /\ ev' = [type |-> "join", from |-> A, roomId |-> "r1", name |-> NoName])
        => /\ Len(Delivered) = 1
           /\ Delivered[1] = [type |-> "joined", to |-> {A},
                              body |-> [selfId |-> A, selfRole |-> "host", peers |-> {}]]
           /\ RoomIs(A, {}, FALSE, {})'
    /\ (RoomIs(A, {}, FALSE, {})
          /\ ev' = [type |-> "join", from |-> B, roomId |-> "r1", name |-> NoName])
        => /\ Len(Delivered) = 2
           /\ Delivered[1] = [type |-> "joined", to |-> {B},
                              body |-> [selfId |-> B, selfRole |-> "guest",
                                        peers |-> {FreshEntry(A, "host")}]]
           /\ Delivered[2] = [type |-> "peer-joined", to |-> {A},
                              body |-> FreshEntry(B, "guest")]
           /\ RoomIs(A, {B}, FALSE, {})'
    /\ (RoomIs(A, {B}, FALSE, {})
          /\ ev' = [type |-> "lock-room", from |-> A, roomId |-> "r1", locked |-> TRUE])
        => /\ Len(Delivered) = 1
           /\ Delivered[1] = [type |-> "lock-state", to |-> {A, B},
                              body |-> [locked |-> TRUE]]
           /\ RoomIs(A, {B}, TRUE, {})'
    /\ (RoomIs(A, {B}, TRUE, {})
          /\ ev' = [type |-> "join", from |-> C, roomId |-> "r1", name |-> NoName])
        => /\ Len(Delivered) = 2
           /\ Delivered[1].type = "waiting"
           /\ Delivered[1].to = {C}
           /\ Delivered[2] = [type |-> "waiting-list", to |-> {A, B},
                              body |-> [list |-> {[id |-> C, name |-> <<"Guest-", C>>]}]]
           /\ RoomIs(A, {B}, TRUE, {C})'
    /\ (RoomIs(A, {B}, TRUE, {C})
          /\ ev' = [type |-> "admit", from |-> A, roomId |-> "r1", id |-> C])
        => /\ Len(Delivered) = 3
           /\ Delivered[1] = [type |-> "joined", to |-> {C},
                              body |-> [selfId |-> C, selfRole |-> "guest",
                                        peers |-> {FreshEntry(A, "host"),
                                                   FreshEntry(B, "guest")}]]
           /\ Delivered[2] = [type |-> "peer-joined", to |-> {A, B},
                              body |-> FreshEntry(C, "guest")]
           /\ Delivered[3].type = "waiting-list"
           /\ {A, B} \subseteq Delivered[3].to
           /\ Delivered[3].body = [list |-> {}]
           /\ RoomIs(A, {B, C}, TRUE, {})'
    /\ (RoomIs(A, {B, C}, TRUE, {})
          /\ ev' = [type |-> "disconnecting", from |-> B])
        => /\ Len(Delivered) = 1
           /\ Delivered[1] = [type |-> "peer-left", to |-> {A, C}, body |-> [id |-> B]]
           /\ RoomIs(A, {C}, TRUE, {})'

\* C29: for any three connected sessions A, B, C and an empty table, the events A
\* joins R, B joins R, A locks R, C joins R, A admits C, B disconnects deliver in
\* order: joined(host, no peers) to A; joined(peers A as host) to B and
\* peer-joined(B, guest) to A; lock-state(true) to A and B; waiting to C and
\* waiting-list [C] to A and B; joined(peers A, B) to C, peer-joined(C, guest) to A
\* and B and waiting-list [] to A and B; peer-left(B) to A and C; and R's members
\* are then exactly A and C.
C29_Walkthrough ==
    [][\A A \in Sessions, B \in Sessions, C \in Sessions :
          ({A, B, C} \subseteq sockets /\ A # B /\ A # C /\ B # C)
            => Walkthrough(A, B, C)]_vars

\* the state the walk-through ends in for s1, s2, s3
C29_Witness ==
    /\ ev = [type |-> "disconnecting", from |-> "s2"]
    /\ sent = <<[type |-> "peer-left", to |-> {"s1", "s3"}, body |-> [id |-> "s2"]]>>
    /\ RoomIs("s1", {"s3"}, TRUE, {})

\* C30 (its first half): in every reachable state no room has more than one member
\* whose stored role is host.
C30_AtMostOneHost == \A r \in DOMAIN rooms : Cardinality(Hosts(r)) <= 1

\* C31: in every reachable state a room whose waiting set is non-empty has a member
\* whose stored role is host.
C31_WaitingHasHost == \A r \in DOMAIN rooms : Wait(r) # {} => Hosts(r) # {}

\* C32: a join from a session that is already a member of the target room changes
\* nothing in the room table (its role, its stored state, the room's members and
\* waiting set) and delivers no peer-joined to anyone.
C32_RepeatedJoinChangesNothing ==
    [][(ev'.type = "join" /\ ev'.from \in Mem(ev'.roomId))
        => /\ rooms' = rooms
           /\ \A x \in Sessions : Got("peer-joined", x)' = {}]_vars

\* the message types that the handlers send to a room's broadcast channel
Broadcasts == {"peer-joined", "peer-left", "state-update", "chat", "reaction", "lock-state", "waiting-list"}

\* C33: in every state reached by a step, for every room the sockets subscribed to its
\* channel are exactly the keys of its members map (none when the room is not in the
\* table), and a session that is in a waiting set and in no members map is reached
\* by no emit of a broadcast type.
C33_SubscribersAreMembers ==
    [][/\ \A r \in RoomIds : subs'[r] = Mem(r)'
       /\ \A x \in Sessions :
            ((\E r \in RoomIds : x \in Wait(r)') /\ (\A r \in RoomIds : x \notin Mem(r)'))
            => \A i \in 1..Len(sent') : sent'[i].type \in Broadcasts => x \notin sent'[i].to]_vars

\* a chat is broadcast to a member of the room while another session is only waiting
C33_Witness ==
    /\ ev.type = "chat"
    /\ \E x \in Sessions : x \in Wait("r1") \ Mem("r1")
    /\ \E m \in Mem("r1") : Got("chat", m) # {}
    /\ subs["r1"] = Mem("r1")

\* C34: the from field of every signal, chat and reaction message that a handler
\* emits is the id of the socket whose event the handler is processing, whatever
\* from field the event's payload carries.
C34_FromIsTheSender ==
    [][\A i \in 1..Len(sent') :
          sent'[i].type \in {"signal", "chat", "reaction"} => sent'[i].body.from = ev'.from]_vars

\* a signal whose payload names another session as from was delivered to a member
C34_Witness ==
    /\ ev.type = "signal"
    /\ ev.payload.from # ev.from
    /\ \E m \in Mem("r1") : Got("signal", m) # {}
    /\ \A i \in 1..Len(sent) : sent[i].body.from = ev.from

\* the members of room r of the one-to-one server; none when it is not in the table
Members(r) == IF r \in DOMAIN signaling.rooms THEN signaling.rooms[r].members ELSE {}

\* the members of room r whose last joined message for r said isInitiator: true
Initiators(r) == {m \in Members(r) : m \in DOMAIN joinedAck[r] /\ joinedAck[r][m]}

\* C39: in every reachable state of the one-to-one server a room with two members
\* has exactly one member whose joined acknowledgement said isInitiator: true.
C39_OneInitiatorPerPair ==
    \A r \in RoomIds : Cardinality(Members(r)) = 2 => Cardinality(Initiators(r)) = 1

\* C40: the one-to-one server never has more than 2 members in a room, and a step
\* emits ready exactly when it is a join that takes the room from one member to two;
\* it emits it once, to both members.
C40_ReadyExactlyOnPairing ==
    [][/\ \A r \in RoomIds : Cardinality(Members(r)') <= 2
       /\ LET ready == {i \in 1..Len(sent') : sent'[i].type = "ready"}
              pairs == {r \in RoomIds : /\ ev'.type = "join"
                                        /\ ev'.roomId = r
                                        /\ Cardinality(Members(r)) = 1
                                        /\ Cardinality(Members(r)') = 2}
          IN  /\ ready # {} <=> pairs # {}
              /\ Cardinality(ready) <= 1
              /\ \A i \in ready : \A r \in pairs : sent'[i].to = Members(r)']_vars

\* a third session joins a room after one of its first two members left or
\* disconnected, and ready is emitted to the new pair
C40_Witness ==
    /\ ev.type = "join"
    /\ Members(ev.roomId) = {"s2", "s3"}
    /\ Got("ready", "s2") # {} /\ Got("ready", "s3") # {}
    /\ "s1" \in DOMAIN joinedAck[ev.roomId]

\* C35: for every active member M of the room, once every message emitted to M has
\* been handled in order, the peers M's page has accumulated (the peers of joined,
\* plus each peer-joined, minus each peer-left) are the room's members without M
C35_ViewIsMembers ==
    \A m \in Mem(ClientRoom) :
        (Listening(m) /\ inbox[m] = <<>>)
            => DOMAIN memberState[m] = Mem(ClientRoom) \ {m}

\* two members that see each other after an admission and a departure
C35_Witness ==
    /\ ev.type \in {"leave", "disconnect"}
    /\ rooms # EmptyMap
    /\ Cardinality(Mem(ClientRoom)) = 2
    /\ \E m \in Mem(ClientRoom) : rooms[ClientRoom].members[m].role = "guest" /\ rooms[ClientRoom].locked
    /\ \A m \in Mem(ClientRoom) :
        /\ Listening(m)
        /\ inbox[m] = <<>>
        /\ DOMAIN memberState[m] = Mem(ClientRoom) \ {m}

\* a page that has handled every message sent to it and has finished its joined handler
\* with its camera and microphone open
Settled(s) ==
    /\ phase[s] = "open"
    /\ inbox[s] = <<>>
    /\ localStream[s]
    /\ \A i \in 1..Len(tasks[s]) : tasks[s][i].handler # "joined"

C37_ConnectionsHaveTracks ==
    \A s \in Sessions : \A p \in DOMAIN peerMap[s] : peerMap[s][p].tracks

\* the connection that page s holds for peer p: its queue of pending candidates, the
\* candidates given to addIceCandidate, and whether its remote description is set
Pending(s, p) == IF p \in DOMAIN peerMap[s] THEN peerMap[s][p].pendingCandidates ELSE <<>>

Applied(s, p) == IF p \in DOMAIN peerMap[s] THEN peerMap[s][p].candidates ELSE <<>>

HasRemote(s, p) == p \in DOMAIN peerMap[s] /\ peerMap[s][p].remoteDescription

Range(seq) == {seq[i] : i \in 1..Len(seq)}

\* the candidates of p that are on their way to s
InFlight(s, p) ==
    {inbox[s][i].body.candidate :
        i \in {j \in 1..Len(inbox[s]) : /\ inbox[s][j].type = "signal"
                                        /\ inbox[s][j].body.type = "candidate"
                                        /\ inbox[s][j].body.from = p}}

\* the candidates the connection of p to s has sent
SentBy(p, s) == IF s \in DOMAIN peerMap[p] THEN 1..peerMap[p][s].iceSent ELSE {}

\* the running offer or answer handlers of s for peer p that are in their flush loop
Flushing(s, p) ==
    {i \in 1..Len(tasks[s]) :
        tasks[s][i].handler = "signal" /\ tasks[s][i].from = p /\ tasks[s][i].at = "flush"}

\* a is b with some elements left out
RECURSIVE IsSubsequence(_, _)
IsSubsequence(a, b) ==
    IF a = <<>> THEN TRUE
    ELSE IF b = <<>> THEN FALSE
    ELSE IF Head(a) = Head(b) THEN IsSubsequence(Tail(a), Tail(b))
    ELSE IsSubsequence(a, Tail(b))

\* every candidate sent is on its way, queued or applied; the queue holds the
\* candidates in the order of their arrival; a queue that is left when the remote
\* description is set belongs to a running flush loop, which has applied its first
\* idx - 1 candidates in order
IceState(s, p) ==
    /\ SentBy(p, s) = InFlight(s, p) \cup Range(Pending(s, p)) \cup Range(Applied(s, p))
    /\ \A i, j \in 1..Len(Pending(s, p)) : i < j => Pending(s, p)[i] < Pending(s, p)[j]
    /\ (HasRemote(s, p) /\ Pending(s, p) # <<>>) => Flushing(s, p) # {}
    /\ \A i \in Flushing(s, p) :
         /\ tasks[s][i].queue = Pending(s, p)
         /\ IsSubsequence(SubSeq(tasks[s][i].queue, 1, tasks[s][i].idx - 1), Applied(s, p))

\* the message that the step's handler of page s takes from its queue is candidate c of p
TakesCandidate(s, p, c) ==
    /\ inbox[s] # <<>>
    /\ inbox'[s] = Tail(inbox[s])
    /\ Head(inbox[s]).type = "signal"
    /\ Head(inbox[s]).body.type = "candidate"
    /\ Head(inbox[s]).body.candidate = c
    /\ Head(inbox[s]).body.from = p

\* C38: a candidate of peer P that arrives before the remote description of P's
\* connection is set is not dropped: it is appended to the pending queue, the queue is
\* applied in the order of arrival after the offer or answer of P has set the remote
\* description, and it is empty afterwards; candidates that arrive while the offer or
\* answer handler is suspended are kept as well
C38_QueuedCandidatesApplied ==
    [][\A s, p \in Sessions :
          /\ IceState(s, p)'
          /\ \A c \in 1..MaxCandidates :
               (TakesCandidate(s, p, c) /\ ~HasRemote(s, p))
                  => Pending(s, p)' = Append(Pending(s, p), c) /\ Applied(s, p)' = Applied(s, p)
          /\ Pending(s, p)' # Pending(s, p)
               => \/ \E c \in 1..MaxCandidates : TakesCandidate(s, p, c) /\ ~HasRemote(s, p)
                  \/ /\ Pending(s, p)' = <<>>
                     /\ HasRemote(s, p)
                     /\ IsSubsequence(Pending(s, p), Applied(s, p))
                     /\ Flushing(s, p)' = {}
      ]_vars

\* the handler of an offer has applied the two candidates that were queued before its
\* setRemoteDescription resolved
C38_Witness ==
    \E s, p \in Sessions :
        /\ HasRemote(s, p)
        /\ \E i \in Flushing(s, p) :
             /\ tasks[s][i].type = "offer"
             /\ tasks[s][i].queue = <<1, 2>>
             /\ tasks[s][i].idx = 3
        /\ Applied(s, p) = <<1, 2>>
        /\ Pending(s, p) = <<1, 2>>

====
